---- MODULE Spec2Model ----
(***************************************************************************)
(* Model of the compiler-api service: the content-addressed blob store,   *)
(* the alias registry and the event log of db.js, the HTTP handlers of    *)
(* server.js that drive them, and the wasm contract validator             *)
(* (validate.js).                                                         *)
(***************************************************************************)
EXTENDS Integers, Sequences, FiniteSets, TLC

VARIABLES
  blobs,            \* table blobs:   hash -> [data, size, created_at]
  aliases,          \* table aliases: name -> [hash, created_at, updated_at]
  events,           \* table events, in commit (insertion) order
  sqlite_sequence,  \* AUTOINCREMENT counter of events.id
  now,              \* the wall clock, in milliseconds
  inflight,         \* compile and run requests suspended at an await, in start order
  last,             \* the request answered last, with its response
  lastPut,          \* the putBlob call of the last step: its buffer and the hash returned
  everPut,          \* history: every buffer handed to putBlob so far
  vModule,          \* the module a client posts to /validate
  vBytes,           \* the bytes handed to validate
  vResult,          \* what validate did with them
  xGuest,           \* the guest handed to executeModule
  xInput,           \* the input bytes handed to executeModule
  xResult,          \* what executeModule did with them
  limit,            \* how many events the log may hold
  scratch,          \* the directories under os.tmpdir(): name -> the files in it
  uuidsIssued,      \* how many UUIDs randomUUID has returned
  spawned           \* how many subprocesses execFile has started

vars == <<blobs, aliases, events, sqlite_sequence, now, inflight, last, lastPut,
          everPut, vModule, vBytes, vResult, xGuest, xInput, xResult,
          limit, scratch, uuidsIssued, spawned>>

pipelineVars == <<scratch, uuidsIssued, spawned>>
storeVars == <<blobs, aliases, events, sqlite_sequence, now, inflight, last, lastPut,
               everPut, limit, scratch, uuidsIssued, spawned>>
validateVars == <<vModule, vBytes, vResult>>
harnessVars == <<xGuest, xInput, xResult>>

(***************************************************************************)
(* Bounds of the model.                                                    *)
(***************************************************************************)
MaxClock == 1
MaxEvents == 2
MaxInflight == 2
\* the largest number of imports of a module posted to /validate
MaxImports == 2
\* the largest memory of a guest, in pages
MaxPages == 3

(***************************************************************************)
(* JavaScript values: null / undefined, and an optional value.             *)
(***************************************************************************)
Null == <<>>
Some(v) == <<v>>
Val(o) == o[1]

\* x || null for a number and for a string: 0 and "" are falsy
OrNullInt(o) == IF o = Null THEN Null ELSE IF Val(o) = 0 THEN Null ELSE o
OrNullStr(o) == IF o = Null THEN Null ELSE IF Val(o) = "" THEN Null ELSE o

(***************************************************************************)
(* hash(data): the lowercase hex digest of a buffer.  SHA-256 is modelled  *)
(* by a 16-bit polynomial digest written as four hex digits; it has no     *)
(* collisions on the buffers of the model (HashHasNoCollisions).           *)
(***************************************************************************)
HexDigit == <<"0", "1", "2", "3", "4", "5", "6", "7",
              "8", "9", "a", "b", "c", "d", "e", "f">>

\* a * b modulo 2^16, for a and b below 2^16, within 32-bit arithmetic
MulMod(a, b) == (((a \div 256) * b % 65536) * 256 + (a % 256) * b) % 65536

\* the digest of the bytes lo..hi of buf, started at 0, and 33^(hi - lo + 1)
RECURSIVE DigestSeg(_, _, _)
DigestSeg(buf, lo, hi) ==
  IF lo > hi THEN [h |-> 0, p |-> 1]
  ELSE IF lo = hi THEN [h |-> buf[lo], p |-> 33]
  ELSE LET mid == (lo + hi) \div 2
           l == DigestSeg(buf, lo, mid)
           r == DigestSeg(buf, mid + 1, hi)
       IN  [h |-> (MulMod(l.h, r.p) + r.h) % 65536, p |-> MulMod(l.p, r.p)]

\* the digest of the first n bytes: d := 5381 + length, then d := d * 33 + byte
\* for each byte, modulo 2^16
Digest(buf, n) ==
  LET seg == DigestSeg(buf, 1, n)
  IN  IF n = 0 THEN 5381 + Len(buf)
      ELSE (MulMod((5381 + Len(buf)) % 65536, seg.p) + seg.h) % 65536

ToHex(d) ==
  HexDigit[((d \div 4096) % 16) + 1] \o HexDigit[((d \div 256) % 16) + 1]
    \o HexDigit[((d \div 16) % 16) + 1] \o HexDigit[(d % 16) + 1]

hash(buf) == ToHex(Digest(buf, Len(buf)))

(***************************************************************************)
(* Buffer.from(string): the UTF-8 encoding of a string, given as its       *)
(* sequence of code points (below 65536).                                  *)
(***************************************************************************)
Utf8Char(cp) ==
  IF cp < 128 THEN <<cp>>
  ELSE IF cp < 2048 THEN <<192 + (cp \div 64), 128 + (cp % 64)>>
  ELSE <<224 + (cp \div 4096), 128 + ((cp \div 64) % 64), 128 + (cp % 64)>>

RECURSIVE Utf8(_)
Utf8(str) == IF str = <<>> THEN <<>> ELSE Utf8Char(Head(str)) \o Utf8(Tail(str))

\* a JavaScript value handed to putBlob: a Buffer or a string
Buf(bytes) == [isBuffer |-> TRUE, v |-> bytes]
Str(chars) == [isBuffer |-> FALSE, v |-> chars]
ToBuffer(data) == IF data.isBuffer THEN data.v ELSE Utf8(data.v)

(***************************************************************************)
(* db.js: the blob store.                                                  *)
(***************************************************************************)
\* a faulty variant of InsertOrIgnoreBlob: INSERT OR REPLACE rewrites the row
InsertOrReplaceBlob(bl, h, buf, size, t) ==
  [x \in DOMAIN bl \cup {h} |->
     IF x = h THEN [data |-> buf, size |-> size, created_at |-> t] ELSE bl[x]]

\* a faulty variant of InsertOrIgnoreBlob: the row is not written
InsertBlobDropped(bl, h, buf, size, t) == bl

\* INSERT OR IGNORE INTO blobs (hash, data, size); created_at defaults to now
InsertOrIgnoreBlob(bl, h, buf, size, t) ==
  IF h \in DOMAIN bl THEN bl
  ELSE bl @@ (h :> [data |-> buf, size |-> size, created_at |-> t])

\* a faulty variant of putBlob: the size column takes data.length, the
\* number of characters of a string, not the number of bytes stored
putBlobDataLength(bl, data, t) ==
  LET buf == ToBuffer(data)
      h == hash(buf)
  IN  [blobs |-> InsertOrIgnoreBlob(bl, h, buf, Len(data.v), t), h |-> h]

\* putBlob(data) at time t: the table afterwards and the hash returned
putBlob(bl, data, t) ==
  LET buf == ToBuffer(data)
      h == hash(buf)
  IN  [blobs |-> InsertOrIgnoreBlob(bl, h, buf, Len(buf), t), h |-> h]

\* a faulty variant of getBlob: an empty Buffer is taken for a missing row
getBlobNonEmpty(bl, h) ==
  IF h \in DOMAIN bl /\ Len(bl[h].data) > 0 THEN Some(bl[h].data) ELSE Null

\* getBlob(h): row ? row.data : null
getBlob(bl, h) == IF h \in DOMAIN bl THEN Some(bl[h].data) ELSE Null

\* blobSize(h): row ? row.size : null
blobSize(bl, h) == IF h \in DOMAIN bl THEN Some(bl[h].size) ELSE Null

\* a faulty variant of hasBlob: any non-empty hash is accepted
hasBlobAnyHash(bl, h) == h # ""

\* stmts.hasBlob.get(h)
hasBlob(bl, h) == h \in DOMAIN bl

(***************************************************************************)
(* db.js: the event log.  The argument of recordEvent is a record of       *)
(* optional fields; a field the caller leaves out is undefined (Null).     *)
(***************************************************************************)
NoEventArgs ==
  [type |-> Null, language |-> Null, inputHash |-> Null, outputHash |-> Null,
   moduleHash |-> Null, alias |-> Null, outputSize |-> Null, durationMs |-> Null,
   success |-> FALSE, error |-> Null]

\* the row stmts.insertEvent writes: AUTOINCREMENT id, timestamp defaults to now
EventRow(id, a, t) ==
  [id |-> id,
   timestamp |-> t,
   type |-> IF OrNullStr(a.type) = Null THEN "compile" ELSE Val(a.type),
   language |-> OrNullStr(a.language),
   input_hash |-> OrNullStr(a.inputHash),
   output_hash |-> OrNullStr(a.outputHash),
   module_hash |-> OrNullStr(a.moduleHash),
   alias |-> OrNullStr(a.alias),
   output_size |-> OrNullInt(a.outputSize),
   duration_ms |-> OrNullInt(a.durationMs),
   success |-> IF a.success THEN 1 ELSE 0,
   error |-> OrNullStr(a.error)]

\* a faulty variant of NextRowid: the id of the newest row is used again
NextRowidReused(seq) == IF seq = 0 THEN 1 ELSE seq

\* AUTOINCREMENT: one more than the largest id ever used
NextRowid(seq) == seq + 1

\* a faulty variant of recordEvent: the new row takes the place of the log
recordEventReplacing(ev, seq, a, t) ==
  LET id == NextRowid(seq)
  IN  [events |-> <<EventRow(id, a, t)>>, seq |-> id, id |-> id]

\* recordEvent(args) at time t: the log and the counter afterwards, and lastInsertRowid
recordEvent(ev, seq, a, t) ==
  LET id == NextRowid(seq)
  IN  [events |-> Append(ev, EventRow(id, a, t)), seq |-> id, id |-> id]

\* the first n rows of the log in descending id order; the log is kept in
\* id order
NewestFirst(ev, n) == [k \in 1..n |-> ev[Len(ev) - k + 1]]

\* recentEvents(limit): SELECT ... ORDER BY id DESC LIMIT ?; SQLite puts no
\* upper bound on the rows when the LIMIT is negative
recentEvents(ev, lim) ==
  NewestFirst(ev, IF lim < 0 THEN Len(ev) ELSE IF lim < Len(ev) THEN lim ELSE Len(ev))

(***************************************************************************)
(* db.js: the alias registry.                                              *)
(***************************************************************************)
\* a faulty variant of UpsertAlias: INSERT OR REPLACE writes a new row
UpsertAliasReplacing(al, name, h, t) ==
  [n \in DOMAIN al \cup {name} |->
     IF n = name THEN [hash |-> h, created_at |-> t, updated_at |-> t] ELSE al[n]]

\* INSERT INTO aliases ... ON CONFLICT(name) DO UPDATE SET hash, updated_at
UpsertAlias(al, name, h, t) ==
  IF name \in DOMAIN al
    THEN [al EXCEPT ![name] = [hash |-> h, created_at |-> @.created_at, updated_at |-> t]]
    ELSE al @@ (name :> [hash |-> h, created_at |-> t, updated_at |-> t])

\* a faulty variant of setAlias: the blob is not looked up
setAliasUnchecked(al, bl, name, h, t) ==
  [aliases |-> UpsertAlias(al, name, h, t),
   ret |-> Some([name |-> name, hash |-> h])]

\* setAlias(name, hash): null when no blob has that hash, else {name, hash}
setAlias(al, bl, name, h, t) ==
  IF ~hasBlob(bl, h) THEN [aliases |-> al, ret |-> Null]
  ELSE [aliases |-> UpsertAlias(al, name, h, t),
        ret |-> Some([name |-> name, hash |-> h])]

\* getAlias(name): the row or null
getAlias(al, name) ==
  IF name \in DOMAIN al
    THEN Some([name |-> name, hash |-> al[name].hash,
               created_at |-> al[name].created_at, updated_at |-> al[name].updated_at])
    ELSE Null

\* a faulty variant of deleteAlias: DELETE FROM aliases with no WHERE clause
deleteAliasAll(al, name) == [aliases |-> <<>>, ret |-> name \in DOMAIN al]

\* deleteAlias(name): changes > 0
deleteAlias(al, name) ==
  [aliases |-> [n \in DOMAIN al \ {name} |-> al[n]], ret |-> name \in DOMAIN al]

\* a faulty variant of resolveRef: the hash first, then the alias
resolveRefHashFirst(al, bl, ref) ==
  LET alias == getAlias(al, ref)
  IN  IF hasBlob(bl, ref) THEN Some([hash |-> ref, alias |-> Null])
      ELSE IF alias # Null THEN Some([hash |-> Val(alias).hash, alias |-> Some(ref)])
      ELSE Null

\* resolveRef(ref): the alias first, then the hash, else null
resolveRef(al, bl, ref) ==
  LET alias == getAlias(al, ref)
  IN  IF alias # Null THEN Some([hash |-> Val(alias).hash, alias |-> Some(ref)])
      ELSE IF hasBlob(bl, ref) THEN Some([hash |-> ref, alias |-> Null])
      ELSE Null

(***************************************************************************)
(* validate.js: the Reader over a buffer.  A read past the end of the      *)
(* buffer yields undefined and still advances the position.  Every reader  *)
(* operator returns the value read and the position afterwards.            *)
(***************************************************************************)
Undefined == -1

SECTION_TYPE == 1
SECTION_IMPORT == 2
SECTION_FUNCTION == 3
SECTION_EXPORT == 7
TYPE_I32 == 127
FUNC_TYPE_TAG == 96
EXPORT_FUNC == 0
EXPORT_MEMORY == 2

RECURSIVE Pow2(_)
Pow2(n) == IF n = 0 THEN 1 ELSE 2 * Pow2(n - 1)

RECURSIVE BitOr(_, _)
BitOr(a, b) ==
  IF a = 0 THEN b
  ELSE IF b = 0 THEN a
  ELSE (IF a % 2 = 1 \/ b % 2 = 1 THEN 1 ELSE 0) + 2 * BitOr(a \div 2, b \div 2)

\* byte(): this.buf[this.pos++]
ReadByte(buf, pos) ==
  [v |-> IF pos < Len(buf) THEN buf[pos + 1] ELSE Undefined, pos |-> pos + 1]

\* b & 0x7f and b & 0x80, with undefined read as 0
Low7(b) == IF b = Undefined THEN 0 ELSE b % 128
HasMore(b) == b # Undefined /\ (b \div 128) % 2 = 1

\* leb128(): do { b = byte(); result |= (b & 0x7f) << shift; shift += 7 } while (b & 0x80)
\* The shift count is taken modulo 32 as in JavaScript; the integers of the
\* model's inputs fit in four LEB bytes, so no result reaches bit 31.
RECURSIVE Leb128(_, _, _, _)
Leb128(buf, pos, result, shift) ==
  LET r == ReadByte(buf, pos)
      acc == BitOr(result, Low7(r.v) * Pow2(shift % 32))
  IN  IF HasMore(r.v) THEN Leb128(buf, r.pos, acc, shift + 7)
      ELSE [v |-> acc, pos |-> r.pos]

\* u32()
ReadU32(buf, pos) == Leb128(buf, pos, 0, 0)

Min(a, b) == IF a < b THEN a ELSE b

\* bytes(n): buf.slice(pos, pos + n), clamped to the buffer; pos += n
ReadBytes(buf, pos, n) ==
  [v |-> IF pos >= Len(buf) THEN <<>> ELSE SubSeq(buf, pos + 1, Min(pos + n, Len(buf))),
   pos |-> pos + n]

\* Buffer.toString("utf-8"): one- and two-byte sequences decode to their code
\* point, any other byte to U+FFFD
RECURSIVE Utf8Decode(_)
Utf8Decode(b) ==
  IF b = <<>> THEN <<>>
  ELSE IF b[1] < 128 THEN <<b[1]>> \o Utf8Decode(Tail(b))
  ELSE IF b[1] >= 194 /\ b[1] < 224 /\ Len(b) >= 2 /\ b[2] >= 128 /\ b[2] < 192
    THEN <<(b[1] - 192) * 64 + (b[2] - 128)>> \o Utf8Decode(Tail(Tail(b)))
  ELSE <<65533>> \o Utf8Decode(Tail(b))

\* name(): len = u32(); bytes(len).toString("utf-8")
ReadName(buf, pos) ==
  LET len == ReadU32(buf, pos)
      raw == ReadBytes(buf, len.pos, len.v)
  IN  [v |-> Utf8Decode(raw.v), pos |-> raw.pos]

\* count reads of byte(), pushed to a list
RECURSIVE ReadByteList(_, _, _, _)
ReadByteList(buf, pos, count, acc) ==
  IF count = 0 THEN [v |-> acc, pos |-> pos]
  ELSE LET r == ReadByte(buf, pos)
       IN  ReadByteList(buf, r.pos, count - 1, Append(acc, r.v))

(***************************************************************************)
(* validate.js: the section parsers.  A parser that throws returns         *)
(* [threw |-> TRUE, message |-> ...].                                      *)
(***************************************************************************)
Throw(msg) == [threw |-> TRUE, message |-> msg]

WasmMagic == <<0, 97, 115, 109>>

\* the loop of parseSections: sections[id] = payload, a later section of the
\* same id replacing an earlier one
RECURSIVE SectionLoop(_, _, _)
SectionLoop(buf, pos, sections) ==
  IF pos >= Len(buf) THEN sections
  ELSE LET id == ReadByte(buf, pos)
           size == ReadU32(buf, id.pos)
           payload == ReadBytes(buf, size.pos, size.v)
       IN  SectionLoop(buf, payload.pos,
             [k \in DOMAIN sections \cup {id.v} |->
                IF k = id.v THEN payload.v ELSE sections[k]])

parseSections(buf) ==
  LET magic == ReadBytes(buf, 0, 4)
  IN  IF magic.v # WasmMagic THEN Throw("Not a wasm module")
      ELSE [threw |-> FALSE, sections |-> SectionLoop(buf, magic.pos + 4, <<>>)]

\* the loop of parseTypes, from entry i on
RECURSIVE TypeLoop(_, _, _, _)
TypeLoop(buf, pos, left, types) ==
  IF left = 0 THEN [threw |-> FALSE, v |-> types]
  ELSE LET tag == ReadByte(buf, pos)
           paramCount == ReadU32(buf, tag.pos)
           params == ReadByteList(buf, paramCount.pos, paramCount.v, <<>>)
           resultCount == ReadU32(buf, params.pos)
           results == ReadByteList(buf, resultCount.pos, resultCount.v, <<>>)
       IN  IF tag.v # FUNC_TYPE_TAG THEN Throw("Unexpected type tag")
           ELSE TypeLoop(buf, results.pos, left - 1,
                         Append(types, [params |-> params.v, results |-> results.v]))

parseTypes(buf) ==
  LET count == ReadU32(buf, 0)
  IN  TypeLoop(buf, count.pos, count.v, <<>>)

\* one import after its two names: the position after the kind-specific bytes
\* as the code skips them, and whether it counted a function import
SkipImportDesc(buf, pos) ==
  LET kind == ReadByte(buf, pos)
  IN  IF kind.v = 0
        THEN [pos |-> ReadU32(buf, kind.pos).pos, func |-> 1]
      ELSE IF kind.v = 1
        THEN [pos |-> ReadU32(buf, ReadByte(buf, kind.pos).pos).pos, func |-> 0]
      ELSE IF kind.v = 2
        THEN LET min == ReadU32(buf, ReadByte(buf, kind.pos).pos)
                 lastRead == IF min.pos - 1 < Len(buf) THEN buf[min.pos] ELSE Undefined
             IN  [pos |-> IF lastRead = 1 THEN ReadU32(buf, min.pos).pos ELSE min.pos,
                  func |-> 0]
      ELSE IF kind.v = 3
        THEN [pos |-> ReadByte(buf, ReadByte(buf, kind.pos).pos).pos, func |-> 0]
      ELSE [pos |-> kind.pos, func |-> 0]

RECURSIVE ImportLoop(_, _, _, _)
ImportLoop(buf, pos, left, funcImports) ==
  IF left = 0 THEN [funcImports |-> funcImports]
  ELSE LET module == ReadName(buf, pos)
           name == ReadName(buf, module.pos)
           desc == SkipImportDesc(buf, name.pos)
       IN  ImportLoop(buf, desc.pos, left - 1, funcImports + desc.func)

parseImports(buf) ==
  LET count == ReadU32(buf, 0)
  IN  ImportLoop(buf, count.pos, count.v, 0)

RECURSIVE FunctionLoop(_, _, _, _)
FunctionLoop(buf, pos, left, typeIndices) ==
  IF left = 0 THEN typeIndices
  ELSE LET idx == ReadU32(buf, pos)
       IN  FunctionLoop(buf, idx.pos, left - 1, Append(typeIndices, idx.v))

parseFunctions(buf) ==
  LET count == ReadU32(buf, 0)
  IN  FunctionLoop(buf, count.pos, count.v, <<>>)

RECURSIVE ExportLoop(_, _, _, _)
ExportLoop(buf, pos, left, exports) ==
  IF left = 0 THEN exports
  ELSE LET name == ReadName(buf, pos)
           kind == ReadByte(buf, name.pos)
           index == ReadU32(buf, kind.pos)
       IN  ExportLoop(buf, index.pos, left - 1,
                      Append(exports, [name |-> name.v, kind |-> kind.v, index |-> index.v]))

parseExports(buf) ==
  LET count == ReadU32(buf, 0)
  IN  ExportLoop(buf, count.pos, count.v, <<>>)

(***************************************************************************)
(* validate.js: typeName, formatSig and validate.  Strings the code builds *)
(* are built here; an export's name is its sequence of code points.        *)
(***************************************************************************)
Digits == <<"0", "1", "2", "3", "4", "5", "6", "7", "8", "9">>

\* String(n) of a non-negative integer
RECURSIVE DecString(_)
DecString(n) == IF n < 10 THEN Digits[n + 1] ELSE DecString(n \div 10) \o Digits[(n % 10) + 1]

\* n.toString(16)
RECURSIVE HexString(_)
HexString(n) ==
  IF n < 16 THEN HexDigit[n + 1] ELSE HexString(n \div 16) \o HexDigit[(n % 16) + 1]

typeName(t) ==
  IF t = TYPE_I32 THEN "i32"
  ELSE IF t = 126 THEN "i64"
  ELSE IF t = 125 THEN "f32"
  ELSE IF t = 124 THEN "f64"
  ELSE "0x" \o HexString(t)

\* list.map(typeName).join(", ")
RECURSIVE JoinTypeNames(_)
JoinTypeNames(ts) ==
  IF ts = <<>> THEN ""
  ELSE IF Len(ts) = 1 THEN typeName(ts[1])
  ELSE typeName(ts[1]) \o ", " \o JoinTypeNames(Tail(ts))

formatSig(type) ==
  "(" \o JoinTypeNames(type.params) \o ") -> (" \o JoinTypeNames(type.results) \o ")"

\* typeName(undefined) raises a TypeError inside formatSig
FormatSigThrows(type) ==
  \/ \E i \in DOMAIN type.params : type.params[i] = Undefined
  \/ \E i \in DOMAIN type.results : type.results[i] = Undefined

EXPECTED_PARAMS == <<TYPE_I32, TYPE_I32, TYPE_I32>>
EXPECTED_RESULTS == <<TYPE_I32>>

NameMemory == <<109, 101, 109, 111, 114, 121>>
NameRun == <<114, 117, 110>>
NameInitialize == <<95, 105, 110, 105, 116, 105, 97, 108, 105, 122, 101>>
knownExports == {NameMemory, NameRun, NameInitialize}

\* exports.find(pred): the first match, or Null
FindExport(exports, name, kind) ==
  LET hits == {i \in DOMAIN exports : exports[i].name = name /\ exports[i].kind = kind}
  IN  IF hits = {} THEN Null
      ELSE Some(exports[CHOOSE i \in hits : \A j \in hits : i <= j])

\* info.exports[exp.name] = {kind, index}, a later export of a name replacing an earlier
InfoExports(exports) ==
  [n \in {exports[i].name : i \in DOMAIN exports} |->
     LET last_i == CHOOSE i \in DOMAIN exports :
                     /\ exports[i].name = n
                     /\ \A j \in DOMAIN exports : exports[j].name = n => j <= i
     IN  [kind |-> exports[last_i].kind, index |-> exports[last_i].index]]

\* the warnings, in export order
RECURSIVE ExtraExportWarnings(_)
ExtraExportWarnings(exports) ==
  IF exports = <<>> THEN <<>>
  ELSE (IF Head(exports).name \in knownExports THEN <<>>
        ELSE <<[warning |-> "Extra export: ", name |-> Head(exports).name]>>)
       \o ExtraExportWarnings(Tail(exports))

\* a faulty variant of LocalIndex: the exported index is taken for an index
\* into the Function section
LocalIndexNoImports(index, funcImports) == index

\* runExport.index - imports.funcImports: the exported index counts the
\* imported functions first
LocalIndex(index, funcImports) == index - funcImports

\* the check of the run export: the errors it adds, the runSignature it sets,
\* and whether formatSig raised
CheckRun(runExport, funcImports, funcTypeIndices, types) ==
  LET localIndex == LocalIndex(runExport.index, funcImports)
  IN  IF localIndex < 0 \/ localIndex >= Len(funcTypeIndices)
        THEN [threw |-> FALSE, runSignature |-> Null,
              errors |-> <<"Cannot resolve type for run (func index "
                             \o DecString(runExport.index) \o ")">>]
      ELSE LET typeIdx == funcTypeIndices[localIndex + 1]
           IN  IF typeIdx >= Len(types)
                 THEN [threw |-> FALSE, runSignature |-> Null,
                       errors |-> <<"Cannot resolve type index " \o DecString(typeIdx)
                                      \o " for run">>]
               ELSE LET type == types[typeIdx + 1]
                        paramsOk == type.params = EXPECTED_PARAMS
                        resultsOk == type.results = EXPECTED_RESULTS
                    IN  IF FormatSigThrows(type)
                          THEN Throw("Cannot read properties of undefined")
                        ELSE [threw |-> FALSE, runSignature |-> Some(formatSig(type)),
                              errors |->
                                IF ~paramsOk \/ ~resultsOk
                                  THEN <<"Wrong signature for run: got " \o formatSig(type)
                                           \o ", expected (i32, i32, i32) -> (i32)">>
                                  ELSE <<>>]

\* validate after parseSections succeeded
ValidateSections(sections) ==
  LET types == IF SECTION_TYPE \in DOMAIN sections
                 THEN parseTypes(sections[SECTION_TYPE])
                 ELSE [threw |-> FALSE, v |-> <<>>]
      imports == IF SECTION_IMPORT \in DOMAIN sections
                   THEN parseImports(sections[SECTION_IMPORT])
                   ELSE [funcImports |-> 0]
      funcTypeIndices == IF SECTION_FUNCTION \in DOMAIN sections
                           THEN parseFunctions(sections[SECTION_FUNCTION])
                           ELSE <<>>
      exports == IF SECTION_EXPORT \in DOMAIN sections
                   THEN parseExports(sections[SECTION_EXPORT])
                   ELSE <<>>
      memExport == FindExport(exports, NameMemory, EXPORT_MEMORY)
      runExport == FindExport(exports, NameRun, EXPORT_FUNC)
      memErrors == IF memExport = Null
                     THEN <<"Missing export: memory (kind: memory)">> ELSE <<>>
      run == IF runExport = Null
               THEN [threw |-> FALSE, runSignature |-> Null,
                     errors |-> <<"Missing export: run (kind: function)">>]
               ELSE CheckRun(Val(runExport), imports.funcImports, funcTypeIndices, types.v)
      errors == memErrors \o run.errors
  IN  IF types.threw THEN types
      ELSE IF run.threw THEN run
      ELSE [threw |-> FALSE,
            valid |-> Len(errors) = 0,
            errors |-> errors,
            warnings |-> ExtraExportWarnings(exports),
            info |-> [exports |-> InfoExports(exports), runSignature |-> run.runSignature]]

\* validate(wasmBytes): a result record, or [threw |-> TRUE, ...] when an
\* exception leaves the function
validate(wasmBytes) ==
  LET parsed == parseSections(wasmBytes)
  IN  IF parsed.threw
        THEN [threw |-> FALSE,
              valid |-> FALSE,
              errors |-> <<"Invalid wasm binary: " \o parsed.message>>,
              warnings |-> <<>>,
              info |-> [exports |-> <<>>, runSignature |-> Null]]
      ELSE ValidateSections(parsed.sections)

(***************************************************************************)
(* Well-formed wasm modules, as the toolchains emit them and as clients    *)
(* post them to /validate: a module is described by its types, imports,    *)
(* local functions and exports, and EncodeModule writes its binary form.   *)
(***************************************************************************)
RECURSIVE EncU32(_)
EncU32(n) == IF n < 128 THEN <<n>> ELSE <<128 + (n % 128)>> \o EncU32(n \div 128)

RECURSIVE Concat(_)
Concat(parts) == IF parts = <<>> THEN <<>> ELSE Head(parts) \o Concat(Tail(parts))

EncVec(items) == EncU32(Len(items)) \o Concat(items)
EncName(chars) == EncU32(Len(Utf8(chars))) \o Utf8(chars)
EncSection(id, payload) == <<id>> \o EncU32(Len(payload)) \o payload
EncLimits(lim) ==
  IF lim.max = Null THEN <<0>> \o EncU32(lim.min)
  ELSE <<1>> \o EncU32(lim.min) \o EncU32(Val(lim.max))

EncFuncType(t) ==
  <<FUNC_TYPE_TAG>> \o EncU32(Len(t.params)) \o t.params
    \o EncU32(Len(t.results)) \o t.results

NameEnv == <<101, 110, 118>>
NameX == <<120>>

\* an import of kind 0 (func), 1 (table of funcref), 2 (memory) or 3 (an
\* immutable i32 global)
EncImport(imp) ==
  EncName(NameEnv) \o EncName(NameX) \o
  (IF imp.kind = 0 THEN <<0>> \o EncU32(imp.type)
   ELSE IF imp.kind = 1 THEN <<1, 112>> \o EncLimits(imp.limits)
   ELSE IF imp.kind = 2 THEN <<2>> \o EncLimits(imp.limits)
   ELSE <<3, TYPE_I32, 0>>)

EncExport(e) == EncName(e.name) \o <<e.kind>> \o EncU32(e.index)

\* a function body that leaves a zero of each result type on the stack
EncConst(t) == IF t = 126 THEN <<66, 0>> ELSE <<65, 0>>
EncBody(t) ==
  LET code == <<0>> \o Concat([i \in DOMAIN t.results |-> EncConst(t.results[i])]) \o <<11>>
  IN  EncU32(Len(code)) \o code

EncodeModule(m) ==
  LET sec(id, items) == IF items = <<>> THEN <<>> ELSE EncSection(id, EncVec(items))
  IN  WasmMagic \o <<1, 0, 0, 0>>
      \o sec(SECTION_TYPE, [i \in DOMAIN m.types |-> EncFuncType(m.types[i])])
      \o sec(SECTION_IMPORT, [i \in DOMAIN m.imports |-> EncImport(m.imports[i])])
      \o sec(SECTION_FUNCTION, [i \in DOMAIN m.funcs |-> EncU32(m.funcs[i])])
      \o sec(5, [i \in DOMAIN m.memories |-> EncLimits(m.memories[i])])
      \o sec(SECTION_EXPORT, [i \in DOMAIN m.exports |-> EncExport(m.exports[i])])
      \o sec(10, [i \in DOMAIN m.funcs |-> EncBody(m.types[m.funcs[i] + 1])])

\* the module of scenario 1: run(i32, i32, i32) -> i32 returning 0, one page of memory
TypeRun == [params |-> EXPECTED_PARAMS, results |-> EXPECTED_RESULTS]
TypeVoid == [params |-> <<>>, results |-> <<>>]
TypeI64 == [params |-> EXPECTED_PARAMS, results |-> <<126>>]

ExportRun(i) == [name |-> NameRun, kind |-> EXPORT_FUNC, index |-> i]
ExportMemory == [name |-> NameMemory, kind |-> EXPORT_MEMORY, index |-> 0]

MinimalModule ==
  [types |-> <<TypeRun>>, imports |-> <<>>, funcs |-> <<0>>,
   memories |-> <<[min |-> 1, max |-> Null]>>,
   exports |-> <<ExportRun(0), ExportMemory>>]

(***************************************************************************)
(* The well-formed modules posted to /validate: up to MaxImports imports   *)
(* of any kind, some local functions over a table of three types, one      *)
(* memory (imported or defined), and a choice of exports: `run` as any     *)
(* function of the module or as the memory, `memory` as the memory or as   *)
(* a function, and another name for the memory.                            *)
(***************************************************************************)
TypeTable == <<TypeRun, TypeVoid, TypeI64>>

ImportFunc(t) == [kind |-> 0, type |-> t, limits |-> [min |-> 0, max |-> Null]]
ImportTable == [kind |-> 1, type |-> 0, limits |-> [min |-> 0, max |-> Null]]
ImportMemory == [kind |-> 2, type |-> 0, limits |-> [min |-> 1, max |-> Null]]
ImportGlobal == [kind |-> 3, type |-> 0, limits |-> [min |-> 0, max |-> Null]]
ImportChoices == {ImportFunc(0), ImportFunc(2), ImportTable, ImportMemory, ImportGlobal}

CountKind(imports, k) == Cardinality({i \in DOMAIN imports : imports[i].kind = k})

\* a module has at most one memory
ImportLists ==
  {l \in UNION {[1..n -> ImportChoices] : n \in 0..MaxImports} : CountKind(l, 2) <= 1}

FuncLists == {<<>>, <<0>>, <<1>>, <<1, 0>>}

NameHelper == <<104>>

\* an export that may be left out is Null or Some(export): the empty or the
\* one-element sequence, so the export list is their concatenation
RunExports(n) ==
  {Null, Some([name |-> NameRun, kind |-> EXPORT_MEMORY, index |-> 0])}
    \cup {Some(ExportRun(k)) : k \in 0..(n - 1)}
MemoryExports(n) ==
  {Null, Some(ExportMemory)}
    \cup (IF n > 0 THEN {Some([name |-> NameMemory, kind |-> EXPORT_FUNC, index |-> 0])}
          ELSE {})
ExtraExports == {Null, Some([name |-> NameHelper, kind |-> EXPORT_MEMORY, index |-> 0])}

ModulesWith(imports, funcs) ==
  LET n == CountKind(imports, 0) + Len(funcs)
  IN  {[types |-> TypeTable, imports |-> imports, funcs |-> funcs,
        memories |-> IF CountKind(imports, 2) = 0
                       THEN <<[min |-> 1, max |-> Null]>> ELSE <<>>,
        exports |-> r \o me \o x] :
         r \in RunExports(n), me \in MemoryExports(n), x \in ExtraExports}

Modules == UNION {ModulesWith(imports, funcs) : imports \in ImportLists, funcs \in FuncLists}

\* the function index space of a module: its imported functions in order,
\* then its local functions
IsFuncImport(imp) == imp.kind = 0
FuncTypeOf(m, k) ==
  LET fi == SelectSeq(m.imports, IsFuncImport)
  IN  IF k < Len(fi) THEN m.types[fi[k + 1].type + 1]
      ELSE m.types[m.funcs[k - Len(fi) + 1] + 1]

\* the contract of a module: `memory` exported as a memory, and `run`
\* exported as a function of type (i32, i32, i32) -> (i32)
Conforms(m) ==
  /\ \E i \in DOMAIN m.exports :
       m.exports[i].name = NameMemory /\ m.exports[i].kind = EXPORT_MEMORY
  /\ \E i \in DOMAIN m.exports :
       /\ m.exports[i].name = NameRun
       /\ m.exports[i].kind = EXPORT_FUNC
       /\ FuncTypeOf(m, m.exports[i].index) = TypeRun

(***************************************************************************)
(* Byte sequences posted to /validate that need not be modules: a module   *)
(* whose only type entry has the tag 0x61, every prefix of the minimal     *)
(* module (bad magic, truncated sections), and the minimal module with one *)
(* byte overwritten (malformed section payloads).                          *)
(***************************************************************************)
BadTypeTagWasm ==
  WasmMagic \o <<1, 0, 0, 0>> \o EncSection(SECTION_TYPE, <<1, 97, 0, 0>>)

RawInputs ==
  LET good == EncodeModule(MinimalModule)
  IN  {BadTypeTagWasm}
        \cup {SubSeq(good, 1, n) : n \in 0..Len(good)}
        \cup {[good EXCEPT ![i] = 97] : i \in 1..Len(good)}

(***************************************************************************)
(* Inputs of the service: what clients send and what the toolchains and    *)
(* the guest modules produce.                                              *)
(***************************************************************************)
compilers == {"assemblyscript", "tinygo", "zig"}
RequestLanguages == {"assemblyscript", "grain"}

\* compilers[lang] is looked up on an object literal: besides its own three
\* properties it has those it inherits from Object.prototype, all truthy
ObjectPrototypeNames ==
  {"constructor", "hasOwnProperty", "isPrototypeOf", "propertyIsEnumerable",
   "toLocaleString", "toString", "valueOf", "__proto__", "__defineGetter__",
   "__defineSetter__", "__lookupGetter__", "__lookupSetter__"}

\* if (!compiler): the lookup gave undefined
NoCompiler(lang) == lang \notin compilers /\ lang \notin ObjectPrototypeNames

\* :language values that name no toolchain and are still looked up with success
InheritedLanguages == {"hasOwnProperty", "toString"}

\* request bodies of POST /compile: no text body, the empty string, a one-character source
SourceE == <<233>>
CompileBodies == {Null, Some(<<>>), Some(SourceE)}

\* what the toolchain leaves in its output file
GoodWasm == EncodeModule(MinimalModule)
ToolchainOutputs == {GoodWasm, <<0>>}

\* exec: the Error it rejects with when execFile reports err, carrying
\* stderr || stdout || err.message as its message
ExecReject(errMessage, stdout, stderr) ==
  [message |-> IF stderr # "" THEN stderr ELSE IF stdout # "" THEN stdout ELSE errMessage,
   stderr |-> Some(stderr), stdout |-> Some(stdout)]

\* the errors a compile can end with: exec's rejection after a non-zero
\* exit, or readFile's error when the output file is missing after exit 0
ToolchainErrors ==
  {ExecReject("Command failed", "", "ERROR TS1005"),
   [message |-> "ENOENT", stderr |-> Null, stdout |-> Null]}

\* exec's rejection when the toolchain is killed at the timeout, having
\* printed nothing, and when its output goes over maxBuffer
QuietErrors ==
  {ExecReject("Command failed", "", ""),
   ExecReject("stdout maxBuffer length exceeded", "warning", "")}

\* output files the contract validator has trouble with: a type entry with
\* the tag 0x61, and the minimal module with its memory exported once more
\* under a name that is the character U+007F
NameDel == <<127>>
DelExportWasm ==
  EncodeModule([MinimalModule EXCEPT
    !.exports = @ \o <<[name |-> NameDel, kind |-> EXPORT_MEMORY, index |-> 0]>>])
UnusualOutputs == {BadTypeTagWasm, DelExportWasm}

\* the characters of "[object Undefined]"
ObjectUndefined ==
  <<91, 111, 98, 106, 101, 99, 116, 32, 85, 110, 100, 101, 102, 105, 110, 101, 100, 93>>

\* request bodies of POST /run and the outputs a guest writes
BodyH == <<104>>
RunBodies == {BodyH}
GuestOutputs == {<<>>, BodyH}

\* alias names: a name that is also the hash of a blob the service may store
AliasNames == {hash(GoodWasm)}

\* refs clients use: alias names, the hash of the source, and a hash of nothing stored
MissingHash == "ffff"
Refs == AliasNames \cup {hash(Utf8(SourceE)), MissingHash}

\* every buffer the model can store
AllBuffers ==
  RunBodies \cup GuestOutputs \cup ToolchainOutputs \cup UnusualOutputs
    \cup {Utf8(SourceE), ObjectUndefined}

\* the digest is injective on the buffers of the model, and no digest is MissingHash
HashHasNoCollisions ==
  /\ \A a, b \in AllBuffers : hash(a) = hash(b) => a = b
  /\ \A a \in AllBuffers : hash(a) # MissingHash

(***************************************************************************)
(* server.js: executeModule.  What a guest does is its own business, and   *)
(* the harness sees it as a record g:                                      *)
(*   compiles      WebAssembly.compile and instantiate succeed             *)
(*   hasRun, hasMemory, hasInit   the exports run, memory, _initialize     *)
(*   initTraps, runTraps          _initialize or run ends in a trap        *)
(*   pages, maxPages   the memory's size at instantiation and its maximum  *)
(*   pagesAfter        the memory's size when run returns (run may grow it)*)
(*   ret               the i32 run returns, as the JavaScript number       *)
(*   out               the bytes run wrote at OUTPUT_PTR                   *)
(* Memory is zero where neither the input nor the guest wrote.             *)
(***************************************************************************)
INPUT_PTR == 0
OUTPUT_PTR == 65536
MAX_OUTPUT == 65536
PageSize == 65536

Max(a, b) == IF a > b THEN a ELSE b

\* Uint8Array.prototype.slice(start, end) on an array of len bytes: where the
\* copy starts and how many bytes it has
SliceBounds(len, start, end) ==
  LET k == IF start < 0 THEN Max(len + start, 0) ELSE Min(start, len)
      final == IF end < 0 THEN Max(len + end, 0) ELSE Min(end, len)
  IN  [from |-> k, count |-> Max(final - k, 0)]

\* Math.ceil((OUTPUT_PTR + MAX_OUTPUT) / 65536)
NeededPages == (OUTPUT_PTR + MAX_OUTPUT + PageSize - 1) \div PageSize

\* executeModule for the guest g: [ok |-> FALSE, message] when it throws, else
\* the slice of memory it returns
executeModule(g, inputBytes) ==
  LET grown == Max(g.pages, NeededPages)
  IN  IF ~g.compiles THEN [ok |-> FALSE, message |-> "CompileError"]
      ELSE IF ~g.hasRun
        THEN [ok |-> FALSE, message |-> "Module does not export 'run'"]
      ELSE IF ~g.hasMemory
        THEN [ok |-> FALSE, message |-> "Module does not export 'memory'"]
      ELSE IF g.hasInit /\ g.initTraps THEN [ok |-> FALSE, message |-> "unreachable"]
      ELSE IF g.pages < NeededPages /\ g.maxPages # Null /\ Val(g.maxPages) < NeededPages
        THEN [ok |-> FALSE, message |-> "Maximum memory size exceeded"]
      ELSE IF INPUT_PTR + Len(inputBytes) > grown * PageSize
        THEN [ok |-> FALSE, message |-> "offset is out of bounds"]
      ELSE IF g.runTraps THEN [ok |-> FALSE, message |-> "unreachable"]
      ELSE LET slice == SliceBounds(Max(grown, g.pagesAfter) * PageSize,
                                    OUTPUT_PTR, OUTPUT_PTR + g.ret)
           IN  [ok |-> TRUE, from |-> slice.from, count |-> slice.count]

\* the byte of memory at addr when run has returned
MemAt(g, inputBytes, addr) ==
  IF addr >= OUTPUT_PTR /\ addr < OUTPUT_PTR + Len(g.out) THEN g.out[addr - OUTPUT_PTR + 1]
  ELSE IF addr >= INPUT_PTR /\ addr < INPUT_PTR + Len(inputBytes)
    THEN inputBytes[addr - INPUT_PTR + 1]
  ELSE 0

\* Buffer.from(outMem.slice(...)): the bytes of the slice
OutputBytes(g, inputBytes, res) ==
  [i \in 1..res.count |-> MemAt(g, inputBytes, res.from + i - 1)]

\* guests: one that is no module, one that traps in run, and one for each
\* output, which it writes at OUTPUT_PTR and whose length it returns
NotAModule ==
  [compiles |-> FALSE, hasRun |-> FALSE, hasMemory |-> FALSE, hasInit |-> FALSE,
   initTraps |-> FALSE, runTraps |-> FALSE, pages |-> 1, maxPages |-> Null,
   pagesAfter |-> 1, ret |-> 0, out |-> <<>>]
Writes(out) ==
  [NotAModule EXCEPT !.compiles = TRUE, !.hasRun = TRUE, !.hasMemory = TRUE,
                     !.ret = Len(out), !.out = out]
Trapping == [Writes(<<>>) EXCEPT !.runTraps = TRUE]
RunGuests == {NotAModule, Trapping} \cup {Writes(out) : out \in GuestOutputs}

\* the guests handed to executeModule on its own: every combination of
\* exports and traps, of memory sizes, and of lengths returned by run: 0, 1,
\* one below, at and one above MAX_OUTPUT, two pages, and values with the
\* sign bit set
ReturnValues == {0, 1, MAX_OUTPUT - 1, MAX_OUTPUT, MAX_OUTPUT + 1, 2 * PageSize,
                 -1, -(MAX_OUTPUT + 1), -2147483647 - 1}

FailingGuests ==
  {NotAModule,
   [Writes(<<>>) EXCEPT !.hasRun = FALSE],
   [Writes(<<>>) EXCEPT !.hasMemory = FALSE],
   [Writes(<<>>) EXCEPT !.hasInit = TRUE, !.initTraps = TRUE],
   [Writes(<<>>) EXCEPT !.maxPages = Some(1)],
   Trapping}

ReturningGuests ==
  {[Writes(BodyH) EXCEPT !.hasInit = init, !.pages = p, !.pagesAfter = q, !.ret = r] :
     init \in BOOLEAN, p \in 1..MaxPages, q \in 1..MaxPages, r \in ReturnValues}

ExecGuests == FailingGuests \cup {g \in ReturningGuests : g.pages <= g.pagesAfter}

\* WebAssembly.compile accepts the bytes: they start with the magic
Instantiable(wasmBytes) == ReadBytes(wasmBytes, 0, 4).v = WasmMagic

\* the modules the service is asked to run: the minimal module, and that
\* module without its run export, without its memory export, with an
\* exported _initialize, and with its memory limited to one page
NoRunModule == [MinimalModule EXCEPT !.exports = <<ExportMemory>>]
NoMemoryModule == [MinimalModule EXCEPT !.exports = <<ExportRun(0)>>]
InitModule ==
  [MinimalModule EXCEPT
     !.types = <<TypeRun, TypeVoid>>, !.funcs = <<0, 1>>,
     !.exports = @ \o <<[name |-> NameInitialize, kind |-> EXPORT_FUNC, index |-> 1]>>]
CappedModule == [MinimalModule EXCEPT !.memories = <<[min |-> 1, max |-> Some(1)]>>]
RunModules == {MinimalModule, NoRunModule, NoMemoryModule, InitModule, CappedModule}

\* instance.exports has the name
Exports(m, name) == \E i \in DOMAIN m.exports : m.exports[i].name = name

\* the binary form of each; g is a way the instance of wasmBytes may behave: bytes that are no module
\* do not compile; a module has the exports and the memory it declares, and
\* what its functions do, and whether they grow the memory, is up to it
RunModuleBytes == [m \in RunModules |-> EncodeModule(m)]

Behaves(g, wasmBytes) ==
  IF ~Instantiable(wasmBytes) THEN ~g.compiles
  ELSE \E m \in RunModules :
         /\ RunModuleBytes[m] = wasmBytes
         /\ g.compiles
         /\ g.hasRun = Exports(m, NameRun)
         /\ g.hasMemory = Exports(m, NameMemory)
         /\ g.hasInit = Exports(m, NameInitialize)
         /\ g.pages = m.memories[1].min
         /\ g.maxPages = m.memories[1].max

\* a guest whose run returns -1, the i32 with every bit set
Overflowing == [Writes(BodyH) EXCEPT !.ret = -1]

\* what the modules of RunModules may do when the service runs them
ServiceGuests ==
  RunGuests \cup FailingGuests \cup {Overflowing, [Writes(BodyH) EXCEPT !.hasInit = TRUE]}

(***************************************************************************)
(* The state after construction: empty tables, no request in flight.       *)
(***************************************************************************)
NoCall == [op |-> "none"]

Init ==
  /\ blobs = <<>>
  /\ aliases = <<>>
  /\ events = <<>>
  /\ sqlite_sequence = 0
  /\ now = 0
  /\ inflight = <<>>
  /\ last = NoCall
  /\ lastPut = Null
  /\ everPut = {}
  /\ vModule = MinimalModule
  /\ vBytes = <<>>
  /\ vResult = NoCall
  /\ xGuest = NotAModule
  /\ xInput = <<>>
  /\ xResult = NoCall
  /\ limit = MaxEvents
  /\ scratch = <<>>
  /\ uuidsIssued = 0
  /\ spawned = 0

\* room in the bounded log for n more events besides those of the requests in flight
Room(n) == Len(events) + Len(inflight) + n <= limit

Remove(seq, i) == SubSeq(seq, 1, i - 1) \o SubSeq(seq, i + 1, Len(seq))

\* The record of a step stays in last and lastPut until the client has read the
\* response; the service takes its next step after that.  Reading a response
\* changes nothing else, so this window hides no interleaving of the store.
Quiet == last = NoCall /\ lastPut = Null

Deliver ==
  /\ ~Quiet
  /\ last' = NoCall
  /\ lastPut' = Null
  /\ UNCHANGED <<blobs, aliases, events, sqlite_sequence, now, inflight, everPut>>
  /\ UNCHANGED <<validateVars, harnessVars, limit, pipelineVars>>

\* time passes
Tick ==
  /\ Quiet
  /\ now < MaxClock
  /\ now' = now + 1
  /\ UNCHANGED <<blobs, aliases, events, sqlite_sequence, inflight, last, lastPut, everPut>>
  /\ UNCHANGED <<validateVars, harnessVars, limit, pipelineVars>>

(***************************************************************************)
(* What a step does to the blob store: one putBlob call, or none.          *)
(***************************************************************************)
Stored(put, buf) ==
  /\ blobs' = put.blobs
  /\ everPut' = everPut \cup {buf}
  /\ lastPut' = Some([arg |-> buf, ret |-> put.h])

NothingStored ==
  /\ UNCHANGED <<blobs, everPut>>
  /\ lastPut' = Null

Recorded(rec) ==
  /\ events' = rec.events
  /\ sqlite_sequence' = rec.seq

NothingRecorded == UNCHANGED <<events, sqlite_sequence>>

(***************************************************************************)
(* server.js: GET /blob/:ref.                                              *)
(***************************************************************************)
GetBlobRoute(ref) ==
  LET resolved == resolveRef(aliases, blobs, ref)
      data == getBlob(blobs, Val(resolved).hash)
  IN  /\ Quiet
      /\ last' = IF resolved = Null
                   THEN [op |-> "GET /blob", ref |-> ref, resolved |-> resolved,
                         status |-> 404]
                 ELSE IF data = Null
                   THEN [op |-> "GET /blob", ref |-> ref, resolved |-> resolved,
                         status |-> 404]
                 ELSE [op |-> "GET /blob", ref |-> ref, resolved |-> resolved,
                       status |-> 200, body |-> Val(data),
                       resolvedHash |-> IF OrNullStr(Val(resolved).alias) # Null
                                          THEN Some(Val(resolved).hash) ELSE Null]
      /\ NothingStored
      /\ NothingRecorded
      /\ UNCHANGED <<aliases, now, inflight>>
      /\ UNCHANGED <<validateVars, harnessVars, limit, pipelineVars>>

\* HEAD /blob/:ref
HeadBlobRoute(ref) ==
  LET resolved == resolveRef(aliases, blobs, ref)
      size == blobSize(blobs, Val(resolved).hash)
  IN  /\ Quiet
      /\ last' = IF resolved = Null
                   THEN [op |-> "HEAD /blob", ref |-> ref, resolved |-> resolved,
                         status |-> 404]
                 ELSE IF size = Null
                   THEN [op |-> "HEAD /blob", ref |-> ref, resolved |-> resolved,
                         status |-> 404]
                 ELSE [op |-> "HEAD /blob", ref |-> ref, resolved |-> resolved,
                       status |-> 200, contentLength |-> Val(size),
                       resolvedHash |-> IF OrNullStr(Val(resolved).alias) # Null
                                          THEN Some(Val(resolved).hash) ELSE Null]
      /\ NothingStored
      /\ NothingRecorded
      /\ UNCHANGED <<aliases, now, inflight>>
      /\ UNCHANGED <<validateVars, harnessVars, limit, pipelineVars>>

(***************************************************************************)
(* server.js: GET /events.  The query value is Null when the request has   *)
(* no ?limit=, else its characters.                                        *)
(***************************************************************************)
DEFAULT_LIMIT == 50
MAX_LIMIT == 500

\* the white space parseInt skips: tab, LF, VT, FF, CR, space
IsWhiteSpace(c) == c \in {9, 10, 11, 12, 13, 32}

RECURSIVE TrimStart(_)
TrimStart(chars) ==
  IF chars # <<>> /\ IsWhiteSpace(Head(chars)) THEN TrimStart(Tail(chars)) ELSE chars

\* the value of a digit in the radix, or Undefined when it is none
DigitValue(c, radix) ==
  LET v == IF c >= 48 /\ c <= 57 THEN c - 48
           ELSE IF c >= 97 /\ c <= 122 THEN c - 87
           ELSE IF c >= 65 /\ c <= 90 THEN c - 55
           ELSE Undefined
  IN  IF v # Undefined /\ v < radix THEN v ELSE Undefined

\* the digits at the start of chars, read in the radix: NaN (Null) when there is none
RECURSIVE ParseDigits(_, _, _)
ParseDigits(chars, radix, acc) ==
  IF chars = <<>> \/ DigitValue(Head(chars), radix) = Undefined THEN acc
  ELSE ParseDigits(Tail(chars), radix,
         Some((IF acc = Null THEN 0 ELSE Val(acc) * radix) + DigitValue(Head(chars), radix)))

\* parseInt(string): white space, a sign, 0x or 0X for radix 16, then digits
\* up to the first character that is none; parseInt(undefined) is NaN
parseInt(q) ==
  IF q = Null THEN Null
  ELSE LET s == TrimStart(Val(q))
           signed == s # <<>> /\ Head(s) \in {43, 45}
           negative == s # <<>> /\ Head(s) = 45
           t == IF signed THEN Tail(s) ELSE s
           hex == Len(t) >= 2 /\ t[1] = 48 /\ t[2] \in {88, 120}
           n == ParseDigits(IF hex THEN Tail(Tail(t)) ELSE t, IF hex THEN 16 ELSE 10, Null)
       IN  IF n = Null THEN Null ELSE IF negative THEN Some(-Val(n)) ELSE n

\* Math.min(parseInt(req.query.limit) || 50, 500): NaN and 0 are falsy
QueryLimit(q) ==
  LET n == parseInt(q)
      v == IF n = Null \/ n = Some(0) THEN DEFAULT_LIMIT ELSE Val(n)
  IN  Min(v, MAX_LIMIT)

EventsRoute(q) ==
  /\ Quiet
  /\ last' = [op |-> "GET /events", query |-> q, status |-> 200,
              body |-> recentEvents(events, QueryLimit(q))]
  /\ NothingStored
  /\ NothingRecorded
  /\ UNCHANGED <<aliases, now, inflight>>
  /\ UNCHANGED <<validateVars, harnessVars, limit, pipelineVars>>

(***************************************************************************)
(* server.js: the alias routes.                                            *)
(***************************************************************************)
\* GET /alias/:name
GetAliasRoute(name) ==
  LET alias == getAlias(aliases, name)
  IN  /\ Quiet
      /\ last' = IF alias = Null
                   THEN [op |-> "GET /alias", name |-> name, status |-> 404]
                   ELSE [op |-> "GET /alias", name |-> name, status |-> 200,
                         body |-> Val(alias)]
      /\ NothingStored
      /\ NothingRecorded
      /\ UNCHANGED <<aliases, now, inflight>>
      /\ UNCHANGED <<validateVars, harnessVars, limit, pipelineVars>>

\* PUT /alias/:name with body {hash}; bodyHash is Null when the body has none
PutAliasRoute(name, bodyHash) ==
  LET set == setAlias(aliases, blobs, name, Val(bodyHash), now)
      rec == recordEvent(events, sqlite_sequence,
               [NoEventArgs EXCEPT !.type = Some("alias"), !.alias = Some(name),
                                   !.outputHash = bodyHash, !.success = TRUE], now)
  IN  /\ Quiet
      /\ IF OrNullStr(bodyHash) = Null
           THEN /\ last' = [op |-> "PUT /alias", name |-> name, hash |-> bodyHash,
                            status |-> 400, error |-> "Missing hash in body"]
                /\ UNCHANGED aliases
                /\ NothingRecorded
         ELSE IF set.ret = Null
           THEN /\ last' = [op |-> "PUT /alias", name |-> name, hash |-> bodyHash,
                            status |-> 400, error |-> "Blob not found for hash"]
                /\ UNCHANGED aliases
                /\ NothingRecorded
         ELSE /\ Room(1)
              /\ aliases' = set.aliases
              /\ Recorded(rec)
              /\ last' = [op |-> "PUT /alias", name |-> name, hash |-> bodyHash,
                          status |-> 200, body |-> Val(set.ret)]
      /\ NothingStored
      /\ UNCHANGED <<now, inflight>>
      /\ UNCHANGED <<validateVars, harnessVars, limit, pipelineVars>>

\* DELETE /alias/:name
DeleteAliasRoute(name) ==
  LET alias == getAlias(aliases, name)
      del == deleteAlias(aliases, name)
      rec == recordEvent(events, sqlite_sequence,
               [NoEventArgs EXCEPT !.type = Some("alias"), !.alias = Some(name),
                                   !.outputHash = Some(Val(alias).hash),
                                   !.success = TRUE], now)
  IN  /\ Quiet
      /\ IF ~del.ret
           THEN /\ last' = [op |-> "DELETE /alias", name |-> name, status |-> 404]
                /\ UNCHANGED aliases
                /\ NothingRecorded
         ELSE /\ Room(1)
              /\ aliases' = del.aliases
              /\ Recorded(rec)
              /\ last' = [op |-> "DELETE /alias", name |-> name, status |-> 200]
      /\ NothingStored
      /\ UNCHANGED <<now, inflight>>
      /\ UNCHANGED <<validateVars, harnessVars, limit, pipelineVars>>

(***************************************************************************)
(* its first await, `await tmpDir()`, which has drawn the UUID and issued  *)
(* mkdir.  The handler then waits for mkdir, writeFile, the subprocess and *)
(* readFile in turn (MkdirSettle, WriteFileSettle, ExecExit, RequestEnds), *)
(* and CompileFinish is what it does when the last of                      *)
(* them has settled with `outcome`: the rest of the try block, the catch   *)
(* block and the finally block.  CompileSettle is all of that in one step, *)
(* for the specifications that do not follow the files and the subprocess. *)
(***************************************************************************)
EXEC_TIMEOUT == 30000

\* a faulty variant of TmpDirName: the directory is named after the source
TmpDirNameByHash(uuid, inputHash) == <<"compile-", inputHash>>

\* path.join(os.tmpdir(), `compile-${randomUUID()}`); randomUUID returns a
\* value it has not returned before, which the model writes as its number
TmpDirName(uuid, inputHash) == <<"compile-", uuid>>

CompileRoute(lang, body) ==
  LET put == putBlob(blobs, Str(Val(body)), now)
  IN  /\ Quiet
      /\ IF NoCompiler(lang)
           THEN /\ last' = [op |-> "POST /compile", status |-> 400,
                            error |-> "Unknown language", toolchain |-> Null,
                            lang |-> lang]
                /\ NothingStored
                /\ UNCHANGED <<inflight, uuidsIssued>>
         ELSE IF body = Null \/ body = Some(<<>>)
           THEN /\ last' = [op |-> "POST /compile", status |-> 400,
                            error |-> "Request body must contain source code",
                            toolchain |-> Null, lang |-> lang]
                /\ NothingStored
                /\ UNCHANGED <<inflight, uuidsIssued>>
         ELSE /\ Room(1)
              /\ Len(inflight) < MaxInflight
              /\ Stored(put, Utf8(Val(body)))
              /\ uuidsIssued' = uuidsIssued + 1
              /\ inflight' = Append(inflight,
                   [route |-> "compile", lang |-> lang, source |-> Val(body),
                    inputHash |-> put.h, t0 |-> now,
                    dir |-> TmpDirName(uuidsIssued + 1, put.h),
                    stage |-> "mkdir", pid |-> 0, started |-> 0])
              /\ UNCHANGED last
      /\ NothingRecorded
      /\ UNCHANGED <<aliases, now, scratch, spawned>>
      /\ UNCHANGED <<validateVars, harnessVars, limit>>

\* a faulty variant of ErrorMsg: err.stderr alone
ErrorMsgStderrOnly(err) == IF err.stderr = Null THEN "" ELSE Val(err.stderr)

\* the catch block: err.stderr || err.message
ErrorMsg(err) == IF OrNullStr(err.stderr) = Null THEN err.message ELSE Val(err.stderr)

\* JSON.stringify of a string: the code points it leaves as they are; a
\* control character below U+0020 is written as an escape in ASCII
JsonKeeps(chars) == {chars[k] : k \in DOMAIN chars} \ 0..31

\* res.set(field, value) throws ERR_INVALID_CHAR: the value has a character
\* that is not a tab, not in U+0020..U+007E and not in U+0080..U+00FF
InvalidHeaderChar(c) == c # 9 /\ (c < 32 \/ c = 127 \/ c > 255)

\* res.set("X-Contract-Warnings", JSON.stringify(validation.warnings)) throws;
\* the text the validator writes itself is ASCII, an export's name is not
\* always.  With no warnings the header is not set.
WarningsHeaderThrows(warnings) ==
  \E i \in DOMAIN warnings : \E c \in JsonKeeps(warnings[i].name) : InvalidHeaderChar(c)

\* a faulty variant of RmIssued: the directory is removed at the end of the
\* try block, so not when the request threw
RmIssuedUnlessThrew(dir, threw) == dir /\ ~threw

\* the finally block: if (dir) rm(dir, ...), whether or not the request
\* threw; dir is set when tmpDir has created the directory
RmIssued(dir, threw) == dir

\* the catch block of a request whose toolchain settled with `outcome`, the
\* log being ev and the counter seq when it is entered; then the finally
\* block, whose rm succeeds or fails (rmOk) after the answer
CompileCatch(ev, seq, req, err, outcome, rmOk) ==
  LET rec == recordEvent(ev, seq,
               [NoEventArgs EXCEPT !.type = Some("compile"), !.language = Some(req.lang),
                                   !.inputHash = Some(req.inputHash),
                                   !.durationMs = Some(now - req.t0),
                                   !.success = FALSE, !.error = Some(ErrorMsg(err))], now)
  IN  /\ Recorded(rec)
      /\ last' = [op |-> "POST /compile", status |-> 400, error |-> "Compilation failed",
                  stderr |-> ErrorMsg(err), inputHash |-> req.inputHash,
                  lang |-> req.lang, source |-> req.source,
                  toolchain |-> Some(outcome), dir |-> req.dir, pid |-> req.pid,
                  rmIssued |-> RmIssued(outcome.dir, TRUE),
                  rmFailed |-> RmIssued(outcome.dir, TRUE) /\ ~rmOk]

\* the catch block entered before the try block has recorded anything
CompileFail(req, err, outcome, rmOk) ==
  CompileCatch(events, sqlite_sequence, req, err, outcome, rmOk)

\* compiler(source, dir) when compiler is Object.prototype.hasOwnProperty,
\* called with no receiver: a TypeError; when it is Object.prototype.toString:
\* the string "[object Undefined]", which putBlob and validate turn into its bytes
InheritedCallError ==
  [ok |-> FALSE, dir |-> TRUE,
   err |-> [message |-> "Cannot convert undefined or null to object",
            stderr |-> Null, stdout |-> Null]]
InheritedCallResult == [ok |-> TRUE, wasm |-> ObjectUndefined, dir |-> TRUE]

\* tmpDir rejects: mkdir has failed and there is no directory
MkdirFailed ==
  [ok |-> FALSE, dir |-> FALSE,
   err |-> [message |-> "EACCES: permission denied, mkdir", stderr |-> Null, stdout |-> Null]]

\* what `await tmpDir()` and `await compiler(source, dir)` can settle with:
\* a toolchain runs and ends in any of its ways, an inherited function does
\* the one thing it does
SettlesWith(lang, outcome) ==
  IF outcome = MkdirFailed THEN TRUE
  ELSE IF lang = "hasOwnProperty" THEN outcome = InheritedCallError
  ELSE IF lang = "toString" THEN outcome = InheritedCallResult
  ELSE outcome \notin {InheritedCallError, InheritedCallResult}

\* mkdir(dir, {recursive: true}): the directory is there afterwards, with
\* what it had if it was there before
Mkdir(fs, dir) ==
  IF dir \in DOMAIN fs THEN fs ELSE fs @@ (dir :> [input |-> Null, output |-> Null])

\* rm(dir, {recursive: true, force: true}): the directory and its files are gone
RemoveDir(fs, dir) == [d \in DOMAIN fs \ {dir} |-> fs[d]]

\* fs is the file system when the last awaited operation has settled
CompileFinish(i, outcome, rmOk, fs) ==
  LET req == inflight[i]
      put == putBlob(blobs, Buf(outcome.wasm), now)
      validation == validate(outcome.wasm)
      rec == recordEvent(events, sqlite_sequence,
               [NoEventArgs EXCEPT !.type = Some("compile"), !.language = Some(req.lang),
                                   !.inputHash = Some(req.inputHash),
                                   !.outputHash = Some(put.h),
                                   !.outputSize = Some(Len(outcome.wasm)),
                                   !.durationMs = Some(now - req.t0),
                                   !.success = TRUE], now)
  IN  /\ Quiet
      /\ req.route = "compile"
      /\ SettlesWith(req.lang, outcome)
      /\ inflight' = Remove(inflight, i)
      /\ IF ~outcome.ok
           THEN /\ CompileFail(req, outcome.err, outcome, rmOk)
                /\ NothingStored
         ELSE /\ Stored(put, outcome.wasm)
              /\ IF validation.threw
                   THEN CompileFail(req, [message |-> validation.message,
                                          stderr |-> Null, stdout |-> Null], outcome, rmOk)
                   ELSE IF WarningsHeaderThrows(validation.warnings)
                     THEN CompileCatch(rec.events, rec.seq, req,
                                       [message |-> "Invalid character in header content",
                                        stderr |-> Null, stdout |-> Null], outcome, rmOk)
                   ELSE /\ Recorded(rec)
                        /\ last' = [op |-> "POST /compile", status |-> 200,
                                    body |-> outcome.wasm,
                                    inputHash |-> req.inputHash, outputHash |-> put.h,
                                    contractValid |-> validation.valid,
                                    lang |-> req.lang, source |-> req.source,
                                    toolchain |-> Some(outcome),
                                    dir |-> req.dir, pid |-> req.pid,
                                    rmIssued |-> RmIssued(outcome.dir, FALSE),
                                    rmFailed |-> RmIssued(outcome.dir, FALSE) /\ ~rmOk]
      /\ scratch' = IF last'.rmIssued /\ ~last'.rmFailed THEN RemoveDir(fs, req.dir) ELSE fs
      /\ UNCHANGED <<aliases, now, uuidsIssued>>
      /\ UNCHANGED <<validateVars, harnessVars, limit>>

\* the request from its first await to its end in one step: tmpDir and the
\* compiler settle with `outcome`, and the files they made are not followed
CompileSettle(i, outcome, rmOk) ==
  /\ inflight[i].route = "compile"
  /\ inflight[i].stage = "mkdir"
  /\ CompileFinish(i, outcome, rmOk, scratch)
  /\ UNCHANGED spawned

\* compiler(source, dir) for a function inherited from Object.prototype
InheritedCall(lang) ==
  IF lang = "hasOwnProperty" THEN InheritedCallError ELSE InheritedCallResult

\* readFile and writeFile reject with ENOENT when the file or its directory is missing
NoEntry ==
  [ok |-> FALSE, dir |-> TRUE,
   err |-> [message |-> "ENOENT", stderr |-> Null, stdout |-> Null]]

\* mkdir has made the directory; the handler calls the compiler, which
\* issues writeFile
MkdirSettle(i) ==
  /\ Quiet
  /\ inflight[i].route = "compile"
  /\ inflight[i].stage = "mkdir"
  /\ inflight[i].lang \in compilers
  /\ scratch' = Mkdir(scratch, inflight[i].dir)
  /\ inflight' = [inflight EXCEPT ![i].stage = "writeFile"]
  /\ NothingStored
  /\ NothingRecorded
  /\ UNCHANGED <<aliases, now, last, uuidsIssued, spawned>>
  /\ UNCHANGED <<validateVars, harnessVars, limit>>

\* a faulty variant of Spawn: a subprocess that is running is used again
SpawnShared(n) == IF n = 0 THEN 1 ELSE n

\* execFile starts a subprocess of its own at every call; the model numbers
\* the subprocesses in the order they are started
Spawn(n) == n + 1

\* writeFile(input, source) has written the file, and exec starts the
\* toolchain with the paths of the input and the output file in the
\* request's directory
WriteFileSettle(i) ==
  /\ Quiet
  /\ inflight[i].route = "compile"
  /\ inflight[i].stage = "writeFile"
  /\ inflight[i].dir \in DOMAIN scratch
  /\ scratch' = [scratch EXCEPT ![inflight[i].dir].input = Some(inflight[i].source)]
  /\ spawned' = Spawn(spawned)
  /\ inflight' = [inflight EXCEPT ![i].stage = "exec", ![i].pid = Spawn(spawned),
                                  ![i].started = now]
  /\ NothingStored
  /\ NothingRecorded
  /\ UNCHANGED <<aliases, now, last, uuidsIssued>>
  /\ UNCHANGED <<validateVars, harnessVars, limit>>

\* a faulty variant of TimedOut: the timeout is never applied
TimedOutNever(started, t) == FALSE

\* the timer of execFile has fired: the subprocess has run for EXEC_TIMEOUT
TimedOut(started, t) == t >= started + EXEC_TIMEOUT

\* what a toolchain that exits with 0 has left in its output file: some
\* bytes, or no file (Null)
ProcessWrites == {Null} \cup {Some(w) : w \in ToolchainOutputs \cup {DelExportWasm}}

\* the file system after the subprocess pid has written its output file
\* where its arguments say
Written(fs, dir, pid, wrote) ==
  IF wrote # Null /\ dir \in DOMAIN fs
    THEN [fs EXCEPT ![dir].output = Some([by |-> pid, data |-> Val(wrote)])]
    ELSE fs

\* the subprocess of request i exits with 0 before the timeout; execFile
\* calls back with no error and the compiler issues readFile
ExecExit(i, wrote) ==
  /\ Quiet
  /\ inflight[i].route = "compile"
  /\ inflight[i].stage = "exec"
  /\ ~TimedOut(inflight[i].started, now)
  /\ scratch' = Written(scratch, inflight[i].dir, inflight[i].pid, wrote)
  /\ inflight' = [inflight EXCEPT ![i].stage = "readFile"]
  /\ NothingStored
  /\ NothingRecorded
  /\ UNCHANGED <<aliases, now, last, uuidsIssued, spawned>>
  /\ UNCHANGED <<validateVars, harnessVars, limit>>

\* time passes until the subprocess of request i has run for EXEC_TIMEOUT
Elapse(i) ==
  /\ Quiet
  /\ inflight[i].route = "compile"
  /\ inflight[i].stage = "exec"
  /\ now < inflight[i].started + EXEC_TIMEOUT
  /\ now' = inflight[i].started + EXEC_TIMEOUT
  /\ UNCHANGED <<blobs, aliases, events, sqlite_sequence, inflight, last, lastPut, everPut>>
  /\ UNCHANGED <<validateVars, harnessVars, limit, pipelineVars>>

\* the errors exec rejects with when the toolchain ends by itself: a
\* non-zero exit, or output over maxBuffer
ExitErrors ==
  {ExecReject("Command failed", "", "ERROR TS1005"),
   ExecReject("stdout maxBuffer length exceeded", "warning", "")}

\* the awaited operations that end a request: mkdir rejecting, the call of
\* an inherited function, writeFile rejecting, exec rejecting after the
\* toolchain failed or after the timeout, and readFile either way
Endings ==
  {[at |-> a, err |-> Null] : a \in {"mkdir", "call", "writeFile", "timeout", "readFile"}}
    \cup {[at |-> "exit", err |-> Some(e)] : e \in ExitErrors}

\* whether `end` can happen to req now, and the outcome and the file system
\* it leaves to the rest of the handler
EndOf(req, end) ==
  IF end.at = "mkdir"
    THEN [can |-> req.stage = "mkdir", outcome |-> MkdirFailed, fs |-> scratch]
  ELSE IF end.at = "call"
    THEN [can |-> req.stage = "mkdir" /\ req.lang \in InheritedLanguages,
          outcome |-> InheritedCall(req.lang), fs |-> Mkdir(scratch, req.dir)]
  ELSE IF end.at = "writeFile"
    THEN [can |-> req.stage = "writeFile" /\ req.dir \notin DOMAIN scratch,
          outcome |-> NoEntry, fs |-> scratch]
  ELSE IF end.at = "exit"
    THEN [can |-> req.stage = "exec" /\ ~TimedOut(req.started, now),
          outcome |-> [ok |-> FALSE, dir |-> TRUE, err |-> Val(end.err)], fs |-> scratch]
  ELSE IF end.at = "timeout"
    THEN [can |-> req.stage = "exec" /\ TimedOut(req.started, now),
          outcome |-> [ok |-> FALSE, dir |-> TRUE,
                       err |-> ExecReject("Command failed", "", "")],
          fs |-> scratch]
  ELSE [can |-> req.stage = "readFile",
        outcome |-> IF req.dir \in DOMAIN scratch /\ scratch[req.dir].output # Null
                      THEN [ok |-> TRUE, dir |-> TRUE,
                            wasm |-> Val(scratch[req.dir].output).data]
                      ELSE NoEntry,
        fs |-> scratch]

\* the last awaited operation of request i settles, and the handler runs to its end
RequestEnds(i, end, rmOk) ==
  /\ inflight[i].route = "compile"
  /\ EndOf(inflight[i], end).can
  /\ CompileFinish(i, EndOf(inflight[i], end).outcome, rmOk, EndOf(inflight[i], end).fs)
  /\ UNCHANGED spawned

CompileOutcomes ==
  {[ok |-> TRUE, wasm |-> w, dir |-> TRUE] : w \in ToolchainOutputs}
    \cup {[ok |-> FALSE, err |-> e, dir |-> TRUE] : e \in ToolchainErrors}

\* with the output files that are modules of an unusual kind, the quiet
\* errors, the failure of tmpDir, and the calls of inherited functions
AllCompileOutcomes ==
  CompileOutcomes
    \cup {[ok |-> TRUE, wasm |-> w, dir |-> TRUE] : w \in UnusualOutputs}
    \cup {[ok |-> FALSE, err |-> e, dir |-> TRUE] : e \in QuietErrors}
    \cup {MkdirFailed, InheritedCallError, InheritedCallResult}

(***************************************************************************)
(* server.js: POST /run/:ref.  RunRoute is the handler up to its await of  *)
(* executeModule; RunSettle is the rest of it.  inputRef is Null when the  *)
(* request has no ?input=, and then the body is the input.  A request      *)
(* carries the refs it has resolved, as resolveRef returned them, and the  *)
(* id of the resolve event of its module ref (0 when it recorded none).    *)
(***************************************************************************)
\* a faulty variant of ResolveArgs: the hash is left out
ResolveArgsNoHash(resolved) ==
  [NoEventArgs EXCEPT !.type = Some("resolve"), !.alias = resolved.alias, !.success = TRUE]

ResolveArgs(resolved) ==
  [NoEventArgs EXCEPT !.type = Some("resolve"), !.alias = resolved.alias,
                      !.outputHash = Some(resolved.hash), !.success = TRUE]

\* the log and the counter after the resolve event of `resolved`, if it was an alias
RecordResolve(ev, seq, resolved, t) ==
  IF OrNullStr(resolved.alias) # Null
    THEN recordEvent(ev, seq, ResolveArgs(resolved), t)
    ELSE [events |-> ev, seq |-> seq, id |-> 0]

RunRoute(ref, inputRef, body) ==
  LET moduleResolved == resolveRef(aliases, blobs, ref)
      m == Val(moduleResolved)
      rec1 == RecordResolve(events, sqlite_sequence, m, now)
      wasmBytes == getBlob(blobs, m.hash)
      inputResolved == resolveRef(aliases, blobs, Val(inputRef))
      in == Val(inputResolved)
      rec2 == RecordResolve(rec1.events, rec1.seq, in, now)
      put == putBlob(blobs, Buf(body), now)
      start(inputBytes, inputHash, resolutions) ==
        inflight' = Append(inflight,
          [route |-> "run", moduleHash |-> m.hash, wasmBytes |-> Val(wasmBytes),
           inputBytes |-> inputBytes, inputHash |-> inputHash, t0 |-> now,
           resolutions |-> resolutions, moduleResolveId |-> rec1.id])
  IN  /\ Quiet
      /\ IF moduleResolved = Null
           THEN /\ last' = [op |-> "POST /run", status |-> 404, error |-> "Module not found",
                            resolutions |-> <<>>]
                /\ NothingStored
                /\ NothingRecorded
                /\ UNCHANGED inflight
         ELSE IF wasmBytes = Null
           THEN /\ Len(rec1.events) + Len(inflight) <= limit
                /\ Recorded(rec1)
                /\ last' = [op |-> "POST /run", status |-> 404,
                            error |-> "Module blob not found", resolutions |-> <<m>>]
                /\ NothingStored
                /\ UNCHANGED inflight
         ELSE IF OrNullStr(inputRef) # Null
           THEN IF inputResolved = Null
                  THEN /\ Len(rec1.events) + Len(inflight) <= limit
                       /\ Recorded(rec1)
                       /\ last' = [op |-> "POST /run", status |-> 404,
                                   error |-> "Input not found", resolutions |-> <<m>>]
                       /\ NothingStored
                       /\ UNCHANGED inflight
                ELSE IF getBlob(blobs, in.hash) = Null
                  THEN /\ Len(rec2.events) + Len(inflight) <= limit
                       /\ Recorded(rec2)
                       /\ last' = [op |-> "POST /run", status |-> 404,
                                   error |-> "Input blob not found",
                                   resolutions |-> <<m, in>>]
                       /\ NothingStored
                       /\ UNCHANGED inflight
                  ELSE /\ Len(rec2.events) + Len(inflight) + 1 <= limit
                       /\ Len(inflight) < MaxInflight
                       /\ Recorded(rec2)
                       /\ start(Val(getBlob(blobs, in.hash)), in.hash, <<m, in>>)
                       /\ NothingStored
                       /\ UNCHANGED last
         ELSE /\ Len(rec1.events) + Len(inflight) + 1 <= limit
              /\ Len(inflight) < MaxInflight
              /\ Recorded(rec1)
              /\ Stored(put, body)
              /\ start(body, put.h, <<m>>)
              /\ UNCHANGED last
      /\ UNCHANGED <<aliases, now>>
      /\ UNCHANGED <<validateVars, harnessVars, limit, pipelineVars>>

RunAwaited(req, i, g) ==
  LET outcome == executeModule(g, req.inputBytes)
      output == OutputBytes(g, req.inputBytes, outcome)
      put == putBlob(blobs, Buf(output), now)
      ok == recordEvent(events, sqlite_sequence,
              [NoEventArgs EXCEPT !.type = Some("execute"),
                                  !.moduleHash = Some(req.moduleHash),
                                  !.inputHash = Some(req.inputHash),
                                  !.outputHash = Some(put.h),
                                  !.outputSize = Some(Len(output)),
                                  !.durationMs = Some(now - req.t0),
                                  !.success = TRUE], now)
      failed == recordEvent(events, sqlite_sequence,
                  [NoEventArgs EXCEPT !.type = Some("execute"),
                                      !.moduleHash = Some(req.moduleHash),
                                      !.inputHash = Some(req.inputHash),
                                      !.durationMs = Some(now - req.t0),
                                      !.success = FALSE,
                                      !.error = Some(outcome.message)], now)
  IN  /\ Quiet
      /\ req.route = "run"
      /\ Behaves(g, req.wasmBytes)
      /\ inflight' = Remove(inflight, i)
      /\ IF outcome.ok
           THEN /\ Stored(put, output)
                /\ Recorded(ok)
                /\ last' = [op |-> "POST /run", status |-> 200, body |-> output,
                            moduleHash |-> req.moduleHash, inputHash |-> req.inputHash,
                            outputHash |-> put.h, guest |-> g, input |-> req.inputBytes,
                            resolutions |-> req.resolutions,
                            moduleResolveId |-> req.moduleResolveId]
           ELSE /\ Recorded(failed)
                /\ last' = [op |-> "POST /run", status |-> 400,
                            error |-> "Execution failed", message |-> outcome.message,
                            moduleHash |-> req.moduleHash, inputHash |-> req.inputHash,
                            guest |-> g, input |-> req.inputBytes,
                            resolutions |-> req.resolutions,
                            moduleResolveId |-> req.moduleResolveId]
                /\ NothingStored
      /\ UNCHANGED <<aliases, now>>
      /\ UNCHANGED <<validateVars, harnessVars, limit, pipelineVars>>

(* What the handler would run had it looked the reference up again after  *)
(* the await instead of keeping the constants of lines 189 and 196.       *)
Reresolved(req) ==
  LET first == req.resolutions[1]
      again == IF OrNullStr(first.alias) = Null THEN Some(first)
               ELSE resolveRef(aliases, blobs, Val(first.alias))
  IN  IF again = Null THEN req
      ELSE [req EXCEPT !.moduleHash = Val(again).hash,
                       !.wasmBytes = Val(getBlob(blobs, Val(again).hash))]

RunSettleReresolved(i, g) == RunAwaited(Reresolved(inflight[i]), i, g)

(* moduleHash and wasmBytes are constants of the handler's closure: the   *)
(* continuation after the await uses the values of the request's start.   *)
RunSettle(i, g) == RunAwaited(inflight[i], i, g)

(***************************************************************************)
(* The service: requests arrive and settle in any order.                   *)
(***************************************************************************)
Next ==
  \/ Tick
  \/ Deliver
  \/ \E ref \in AliasNames : GetBlobRoute(ref)
  \/ \E ref \in AliasNames : HeadBlobRoute(ref)
  \/ \E name \in AliasNames, h \in {Null} \cup {Some(r) : r \in Refs} : PutAliasRoute(name, h)
  \/ \E name \in AliasNames : DeleteAliasRoute(name)
  \/ \E lang \in RequestLanguages, body \in CompileBodies : CompileRoute(lang, body)
  \/ \E i \in DOMAIN inflight, outcome \in CompileOutcomes, rmOk \in BOOLEAN :
       CompileSettle(i, outcome, rmOk)
  \/ \E ref \in Refs, body \in RunBodies : RunRoute(ref, Null, body)
  \/ \E ref \in Refs, inputRef \in Refs : RunRoute(ref, Some(inputRef), <<>>)
  \/ \E i \in DOMAIN inflight, g \in RunGuests : RunSettle(i, g)

Spec == Init /\ [][Next]_vars

(***************************************************************************)
(* server.js: POST /validate, for each of the well-formed modules.  The    *)
(* route touches neither the store nor the log.                            *)
(***************************************************************************)
InitValidate ==
  /\ blobs = <<>>
  /\ aliases = <<>>
  /\ events = <<>>
  /\ sqlite_sequence = 0
  /\ now = 0
  /\ inflight = <<>>
  /\ last = NoCall
  /\ lastPut = Null
  /\ everPut = {}
  /\ vModule \in Modules
  /\ vBytes = EncodeModule(vModule)
  /\ vResult = NoCall
  /\ xGuest = NotAModule
  /\ xInput = <<>>
  /\ xResult = NoCall
  /\ limit = MaxEvents
  /\ scratch = <<>>
  /\ uuidsIssued = 0
  /\ spawned = 0

ValidateRoute ==
  /\ vResult = NoCall
  /\ xGuest = NotAModule
  /\ xInput = <<>>
  /\ xResult = NoCall
  /\ limit = MaxEvents
  /\ vResult' = [op |-> "POST /validate", result |-> validate(vBytes)]
  /\ UNCHANGED <<vModule, vBytes>>
  /\ UNCHANGED <<storeVars, harnessVars>>

NextValidate == ValidateRoute

SpecValidate == InitValidate /\ [][NextValidate]_vars

(***************************************************************************)
(* Modules posted to /validate whose run export need not name a function   *)
(* of the module, and whose functions need not name a type: function,      *)
(* global and table imports, a Function section of up to two entries with  *)
(* type indices up to 3, a Type section of three entries, one entry or     *)
(* none, and run exported with an index from 0 to MaxRunIndex.             *)
(***************************************************************************)
MaxRunIndex == 4

\* the binary form of a module up to its exports; the validator reads no
\* section after them
EncodeDeclarations(m) ==
  LET sec(id, items) == IF items = <<>> THEN <<>> ELSE EncSection(id, EncVec(items))
  IN  WasmMagic \o <<1, 0, 0, 0>>
      \o sec(SECTION_TYPE, [i \in DOMAIN m.types |-> EncFuncType(m.types[i])])
      \o sec(SECTION_IMPORT, [i \in DOMAIN m.imports |-> EncImport(m.imports[i])])
      \o sec(SECTION_FUNCTION, [i \in DOMAIN m.funcs |-> EncU32(m.funcs[i])])
      \o sec(5, [i \in DOMAIN m.memories |-> EncLimits(m.memories[i])])
      \o sec(SECTION_EXPORT, [i \in DOMAIN m.exports |-> EncExport(m.exports[i])])

ResolveImports ==
  UNION {[1..n -> {ImportFunc(0), ImportFunc(2), ImportGlobal, ImportTable}] :
           n \in 0..MaxImports}

ResolveModules ==
  {[types |-> ty, imports |-> im, funcs |-> fs,
    memories |-> <<[min |-> 1, max |-> Null]>>,
    exports |-> <<ExportRun(i)>> \o me] :
     ty \in {TypeTable, <<TypeRun>>, <<>>},
     im \in ResolveImports,
     fs \in {<<>>, <<0>>, <<1, 0>>, <<3>>, <<0, 2>>},
     i \in 0..MaxRunIndex,
     me \in {<<>>, <<ExportMemory>>}}

InitResolve ==
  /\ blobs = <<>>
  /\ aliases = <<>>
  /\ events = <<>>
  /\ sqlite_sequence = 0
  /\ now = 0
  /\ inflight = <<>>
  /\ last = NoCall
  /\ lastPut = Null
  /\ everPut = {}
  /\ vModule \in ResolveModules
  /\ vBytes = EncodeDeclarations(vModule)
  /\ vResult = NoCall
  /\ xGuest = NotAModule
  /\ xInput = <<>>
  /\ xResult = NoCall
  /\ limit = MaxEvents
  /\ scratch = <<>>
  /\ uuidsIssued = 0
  /\ spawned = 0

SpecResolve == InitResolve /\ [][NextValidate]_vars

(***************************************************************************)
(* server.js: executeModule on its own, for each guest and input.          *)
(***************************************************************************)
InitExecute ==
  /\ blobs = <<>>
  /\ aliases = <<>>
  /\ events = <<>>
  /\ sqlite_sequence = 0
  /\ now = 0
  /\ inflight = <<>>
  /\ last = NoCall
  /\ lastPut = Null
  /\ everPut = {}
  /\ vModule = MinimalModule
  /\ vBytes = <<>>
  /\ vResult = NoCall
  /\ xGuest \in ExecGuests
  /\ xInput \in {<<>>, BodyH}
  /\ xResult = NoCall
  /\ limit = MaxEvents
  /\ scratch = <<>>
  /\ uuidsIssued = 0
  /\ spawned = 0

ExecuteModule ==
  /\ xResult = NoCall
  /\ xResult' = [op |-> "executeModule", result |-> executeModule(xGuest, xInput)]
  /\ UNCHANGED <<xGuest, xInput>>
  /\ UNCHANGED <<storeVars, validateVars>>

NextExecute == ExecuteModule

SpecExecute == InitExecute /\ [][NextExecute]_vars

(***************************************************************************)
(* server.js: executeModule statement by statement.  xResult holds where   *)
(* the harness is (pc), the page count of the memory, whether the input    *)
(* has been copied, the calls made into the instance and on its memory,    *)
(* each with the page count and `copied` at the time of the call, and the  *)
(* result once the function has returned or thrown.                        *)
(***************************************************************************)
\* guests of the harness: those of ExecGuests, one whose memory starts with
\* no page, and one with _initialize whose memory may have two pages at most
HarnessGuests ==
  ExecGuests
    \cup {[Writes(BodyH) EXCEPT !.pages = 0, !.pagesAfter = NeededPages, !.hasInit = init] :
            init \in BOOLEAN}
    \cup {[Writes(BodyH) EXCEPT !.hasInit = TRUE, !.maxPages = Some(NeededPages),
                                !.pagesAfter = NeededPages]}

InitHarness ==
  /\ blobs = <<>>
  /\ aliases = <<>>
  /\ events = <<>>
  /\ sqlite_sequence = 0
  /\ now = 0
  /\ inflight = <<>>
  /\ last = NoCall
  /\ lastPut = Null
  /\ everPut = {}
  /\ vModule = MinimalModule
  /\ vBytes = <<>>
  /\ vResult = NoCall
  /\ xGuest \in HarnessGuests
  /\ xInput \in {<<>>, BodyH}
  /\ xResult = NoCall
  /\ limit = MaxEvents
  /\ scratch = <<>>
  /\ uuidsIssued = 0
  /\ spawned = 0

\* the harness at pc with the calls made so far
At(pc, pages, copied, calls) ==
  [op |-> "harness", pc |-> pc, pages |-> pages, copied |-> copied, calls |-> calls,
   result |-> Null]

\* executeModule has thrown
Thrown(h, calls, message) ==
  [h EXCEPT !.pc = "done", !.calls = calls,
            !.result = Some([ok |-> FALSE, message |-> message])]

\* a call made by the harness, with the state of the memory when it is made
Call(h, fn, arg) == [fn |-> fn, arg |-> arg, pages |-> h.pages, copied |-> h.copied]

HarnessStays == UNCHANGED <<xGuest, xInput>> /\ UNCHANGED <<storeVars, validateVars>>

\* WebAssembly.compile, WebAssembly.instantiate, and the checks of the
\* exports run and memory
Instantiate ==
  LET h == At("initialize", xGuest.pages, FALSE, <<>>)
  IN  /\ xResult = NoCall
      /\ xResult' =
           IF ~xGuest.compiles THEN Thrown(h, <<>>, "CompileError")
           ELSE IF ~xGuest.hasRun THEN Thrown(h, <<>>, "Module does not export 'run'")
           ELSE IF ~xGuest.hasMemory THEN Thrown(h, <<>>, "Module does not export 'memory'")
           ELSE h
      /\ HarnessStays

\* if (_initialize) _initialize(): the guest's function traps, or returns
\* with the memory at q pages, which it may have grown
CallInitialize(q) ==
  LET h == xResult
      calls == Append(h.calls, Call(h, "_initialize", 0))
  IN  /\ xResult # NoCall
      /\ h.pc = "initialize"
      /\ q >= h.pages
      /\ q <= xGuest.pagesAfter \/ q = h.pages
      /\ xGuest.maxPages # Null => (q <= Val(xGuest.maxPages) \/ q = h.pages)
      /\ ~(xGuest.hasInit /\ ~xGuest.initTraps) => q = h.pages
      /\ xResult' =
           IF ~xGuest.hasInit THEN [h EXCEPT !.pc = "grow"]
           ELSE IF xGuest.initTraps THEN Thrown(h, calls, "unreachable")
           ELSE [h EXCEPT !.pc = "grow", !.calls = calls, !.pages = q]
      /\ HarnessStays

\* a faulty variant of GrowDelta: the memory is grown by one page
GrowDeltaOne(current) == 1

\* needed - current
GrowDelta(current) == NeededPages - current

\* if (current < needed) memory.grow(needed - current); grow throws when
\* the memory would pass its maximum
GrowMemory ==
  LET h == xResult
      current == h.pages
      delta == GrowDelta(current)
      calls == Append(h.calls, Call(h, "grow", delta))
  IN  /\ xResult # NoCall
      /\ h.pc = "grow"
      /\ xResult' =
           IF ~(current < NeededPages) THEN [h EXCEPT !.pc = "copy"]
           ELSE IF xGuest.maxPages # Null /\ current + delta > Val(xGuest.maxPages)
             THEN Thrown(h, calls, "Maximum memory size exceeded")
           ELSE [h EXCEPT !.pc = "copy", !.calls = calls, !.pages = current + delta]
      /\ HarnessStays

\* mem.set(inputBytes, INPUT_PTR): throws when the input does not fit
CopyInput ==
  LET h == xResult
      calls == Append(h.calls, Call(h, "set", INPUT_PTR))
  IN  /\ xResult # NoCall
      /\ h.pc = "copy"
      /\ xResult' =
           IF INPUT_PTR + Len(xInput) > h.pages * PageSize
             THEN Thrown(h, calls, "offset is out of bounds")
             ELSE [h EXCEPT !.pc = "run", !.calls = calls, !.copied = TRUE]
      /\ HarnessStays

\* run(INPUT_PTR, inputBytes.length, OUTPUT_PTR): the guest traps, or
\* returns with the memory at the size it has grown it to
CallRun ==
  LET h == xResult
      calls == Append(h.calls, Call(h, "run", Len(xInput)))
  IN  /\ xResult # NoCall
      /\ h.pc = "run"
      /\ xResult' =
           IF xGuest.runTraps THEN Thrown(h, calls, "unreachable")
           ELSE [h EXCEPT !.pc = "slice", !.calls = calls,
                          !.pages = Max(h.pages, xGuest.pagesAfter)]
      /\ HarnessStays

\* Buffer.from(outMem.slice(OUTPUT_PTR, OUTPUT_PTR + outputLen))
ReturnOutput ==
  LET h == xResult
      slice == SliceBounds(h.pages * PageSize, OUTPUT_PTR, OUTPUT_PTR + xGuest.ret)
  IN  /\ xResult # NoCall
      /\ h.pc = "slice"
      /\ xResult' = [h EXCEPT !.pc = "done",
                              !.result = Some([ok |-> TRUE, from |-> slice.from,
                                               count |-> slice.count])]
      /\ HarnessStays

NextHarness ==
  \/ Instantiate
  \/ \E q \in 0..MaxPages : CallInitialize(q)
  \/ GrowMemory
  \/ CopyInput
  \/ CallRun
  \/ ReturnOutput

SpecHarness == InitHarness /\ [][NextHarness]_vars

(**************************************************************************)
(* The harness behind the HTTP edge: express.raw({limit: "1mb"}) hands    *)
(* the handler of /run a body of at most RAW_LIMIT bytes and answers 413  *)
(* to a longer one; executeModule then runs on the body as it is.         *)
(**************************************************************************)
RAW_LIMIT == 1048576

Accepts(body) == Len(body) <= RAW_LIMIT

Zeros(n) == [k \in 1..n |-> 0]

EdgeLengths ==
  {0, Len(BodyH), OUTPUT_PTR - INPUT_PTR, OUTPUT_PTR - INPUT_PTR + 1, RAW_LIMIT + 1}

LongLengths == {NeededPages * PageSize, NeededPages * PageSize + 1}

EdgeGuests ==
  FailingGuests \cup {g \in ReturningGuests : g.ret = Len(BodyH) /\ g.pages <= g.pagesAfter}

InitEdgeWith(lengths) ==
  /\ blobs = <<>>
  /\ aliases = <<>>
  /\ events = <<>>
  /\ sqlite_sequence = 0
  /\ now = 0
  /\ inflight = <<>>
  /\ last = NoCall
  /\ lastPut = Null
  /\ everPut = {}
  /\ vModule = MinimalModule
  /\ vBytes = <<>>
  /\ vResult = NoCall
  /\ xGuest \in EdgeGuests
  /\ xInput \in {body \in {Zeros(n) : n \in lengths} : Accepts(body)}
  /\ xResult = NoCall
  /\ limit = MaxEvents
  /\ scratch = <<>>
  /\ uuidsIssued = 0
  /\ spawned = 0

InitEdge == InitEdgeWith(EdgeLengths)

InitEdgeLong == InitEdgeWith(LongLengths)

SpecEdgeLong == InitEdgeLong /\ [][NextHarness]_vars

SpecEdge == InitEdge /\ [][NextHarness]_vars

\* the statements together do what executeModule does
HarnessAgrees ==
  (xResult # NoCall /\ xResult.pc = "done")
    => Val(xResult.result) = executeModule(xGuest, xInput)

(***************************************************************************)
(* Compile requests of one source, step by step: each waits for mkdir,     *)
(* writeFile, its subprocess and readFile.                                 *)
(***************************************************************************)
PipelineLanguages == {"assemblyscript", "hasOwnProperty"}

NextPipeline ==
  \/ Deliver
  \/ \E lang \in PipelineLanguages : CompileRoute(lang, Some(SourceE))
  \/ \E i \in DOMAIN inflight : MkdirSettle(i)
  \/ \E i \in DOMAIN inflight : WriteFileSettle(i)
  \/ \E i \in DOMAIN inflight, wrote \in ProcessWrites : ExecExit(i, wrote)
  \/ \E i \in DOMAIN inflight : Elapse(i)
  \/ \E i \in DOMAIN inflight, end \in Endings, rmOk \in BOOLEAN : RequestEnds(i, end, rmOk)

SpecPipeline == Init /\ [][NextPipeline]_vars

\* the UUIDs drawn while the log has room
Uuids == 1..MaxEvents

\* the request that drew the UUID u is in flight
InFlight(u) ==
  \E i \in DOMAIN inflight : inflight[i].dir = TmpDirName(u, inflight[i].inputHash)

\* what the event loop and the clock bring to the request of UUID u without
\* fail: its mkdir and writeFile settle, time passes while its subprocess
\* runs, and the timer of execFile ends it at the timeout.  That the
\* subprocess exits by itself is left to the toolchain.
Settles(u) ==
  \E i \in DOMAIN inflight :
    /\ inflight[i].dir = TmpDirName(u, inflight[i].inputHash)
    /\ \/ MkdirSettle(i)
       \/ WriteFileSettle(i)
       \/ Elapse(i)
       \/ \E end \in {e \in Endings : e.at \notin {"exit", "readFile"}}, rmOk \in BOOLEAN :
            RequestEnds(i, end, rmOk)

\* readFile settles for the request of UUID u.  The step is RequestEnds at
\* "readFile": the one step of NextPipeline that takes a request waiting for
\* readFile out of inflight, possible whenever the service is Quiet.  It is
\* named here by that effect.
ReadFileSettles(u) ==
  \E i \in DOMAIN inflight :
    /\ inflight[i].dir = TmpDirName(u, inflight[i].inputHash)
    /\ inflight[i].stage = "readFile"
    /\ Quiet
    /\ inflight' = Remove(inflight, i)

\* the pipeline with the responses read and the callbacks of every request run
SpecPipelineLive ==
  /\ Init
  /\ [][NextPipeline]_vars
  /\ WF_vars(Deliver)
  /\ \A u \in Uuids : WF_vars(Settles(u)) /\ WF_inflight(ReadFileSettles(u))

(***************************************************************************)
(* The pipeline with every kind of request: a language of the service, a   *)
(* language it does not have, and a name that compilers inherits; no text  *)
(* body, an empty source and a source of one character.                    *)
(***************************************************************************)
IntakeLanguages == {"assemblyscript", "grain", "toString"}

NextIntake ==
  \/ Deliver
  \/ \E lang \in IntakeLanguages, body \in CompileBodies : CompileRoute(lang, body)
  \/ \E i \in DOMAIN inflight : MkdirSettle(i)
  \/ \E i \in DOMAIN inflight : WriteFileSettle(i)
  \/ \E i \in DOMAIN inflight, wrote \in ProcessWrites : ExecExit(i, wrote)
  \/ \E i \in DOMAIN inflight : Elapse(i)
  \/ \E i \in DOMAIN inflight, end \in Endings, rmOk \in BOOLEAN : RequestEnds(i, end, rmOk)

SpecIntake == Init /\ [][NextIntake]_vars

(***************************************************************************)
(* Compile requests alone, with every kind of output file.                 *)
(***************************************************************************)
NextCompile ==
  \/ Tick
  \/ Deliver
  \/ \E lang \in RequestLanguages \cup InheritedLanguages, body \in CompileBodies :
       CompileRoute(lang, body)
  \/ \E i \in DOMAIN inflight, outcome \in AllCompileOutcomes, rmOk \in BOOLEAN :
       CompileSettle(i, outcome, rmOk)

SpecCompile == Init /\ [][NextCompile]_vars

(***************************************************************************)
(* Run requests against a database an earlier session left behind: each    *)
(* module of RunModules was compiled from the same source, and the alias   *)
(* "main" was put on the minimal module.  The log has room for             *)
(* MaxRunEvents more events.                                               *)
(***************************************************************************)
MaxRunEvents == 3

SeedModules == <<MinimalModule, NoRunModule, NoMemoryModule, InitModule, CappedModule>>

\* the blobs: putBlob of the source and of each output
RECURSIVE PutAll(_, _)
PutAll(bl, bufs) ==
  IF bufs = <<>> THEN bl
  ELSE PutAll(putBlob(bl, Buf(Head(bufs)), 0).blobs, Tail(bufs))

SeedBlobs ==
  PutAll(<<>>, <<Utf8(SourceE)>> \o [n \in DOMAIN SeedModules |-> EncodeModule(SeedModules[n])])

AliasMain == "main"

\* PUT /alias/main {hash: hash(GoodWasm)}
SeedAliases == UpsertAlias(<<>>, AliasMain, hash(GoodWasm), 0)

\* the log: the rows of the compile events, ids from 1, then the row of the alias event
SeedCompileRow(n) ==
  EventRow(n, [NoEventArgs EXCEPT !.type = Some("compile"),
                                  !.language = Some("assemblyscript"),
                                  !.inputHash = Some(hash(Utf8(SourceE))),
                                  !.outputHash = Some(hash(EncodeModule(SeedModules[n]))),
                                  !.outputSize = Some(Len(EncodeModule(SeedModules[n]))),
                                  !.durationMs = Some(0),
                                  !.success = TRUE], 0)

SeedEvents ==
  [n \in DOMAIN SeedModules |-> SeedCompileRow(n)]
    \o <<EventRow(Len(SeedModules) + 1,
                  [NoEventArgs EXCEPT !.type = Some("alias"), !.alias = Some(AliasMain),
                                      !.outputHash = Some(hash(GoodWasm)),
                                      !.success = TRUE], 0)>>

InitRun ==
  /\ blobs = SeedBlobs
  /\ aliases = SeedAliases
  /\ events = SeedEvents
  /\ sqlite_sequence = Len(SeedEvents)
  /\ now = 0
  /\ inflight = <<>>
  /\ last = NoCall
  /\ lastPut = Null
  /\ everPut = {Utf8(SourceE)} \cup {EncodeModule(m) : m \in RunModules}
  /\ vModule = MinimalModule
  /\ vBytes = <<>>
  /\ vResult = NoCall
  /\ xGuest = NotAModule
  /\ xInput = <<>>
  /\ xResult = NoCall
  /\ limit = Len(SeedEvents) + MaxRunEvents
  /\ scratch = <<>>
  /\ uuidsIssued = 0
  /\ spawned = 0

\* refs of run requests: the alias, the hashes of the modules and of the
\* source, and a hash of nothing stored
RunRefs ==
  {AliasMain, MissingHash, hash(Utf8(SourceE))} \cup {hash(EncodeModule(m)) : m \in RunModules}

\* no time passes in these runs: every timestamp and duration is 0
NextRun ==
  \/ Deliver
  \/ \E ref \in RunRefs, body \in RunBodies : RunRoute(ref, Null, body)
  \/ \E inputRef \in {AliasMain, MissingHash} : RunRoute(AliasMain, Some(inputRef), <<>>)
  \/ \E i \in DOMAIN inflight, g \in ServiceGuests : RunSettle(i, g)
  \/ \E h \in {hash(GoodWasm), hash(EncodeModule(NoRunModule))} :
       PutAliasRoute(AliasMain, Some(h))
  \/ DeleteAliasRoute(AliasMain)
  \/ \E ref \in {AliasMain, hash(GoodWasm)} : GetBlobRoute(ref)
  \/ \E ref \in {AliasMain, hash(GoodWasm)} : HeadBlobRoute(ref)

SpecRun == InitRun /\ [][NextRun]_vars

(***************************************************************************)
(* Alias requests against the same database, with time passing: the alias  *)
(* "main" is there, the alias "dev" is not yet.                            *)
(***************************************************************************)
AliasDev == "dev"
AliasRefs == {AliasMain, AliasDev}

\* the hashes of alias PUT bodies: two stored modules and a hash of nothing stored
AliasHashes == {hash(GoodWasm), hash(EncodeModule(NoRunModule)), MissingHash}

NextAlias ==
  \/ Tick
  \/ Deliver
  \/ \E name \in AliasRefs, h \in {Null} \cup {Some(r) : r \in AliasHashes} :
       PutAliasRoute(name, h)
  \/ \E name \in AliasRefs : DeleteAliasRoute(name)
  \/ \E name \in AliasRefs : GetAliasRoute(name)
  \/ \E ref \in AliasRefs : GetBlobRoute(ref)

SpecAlias == InitRun /\ [][NextAlias]_vars

\* POST /validate for byte sequences of any kind
InitValidateBytes ==
  /\ blobs = <<>>
  /\ aliases = <<>>
  /\ events = <<>>
  /\ sqlite_sequence = 0
  /\ now = 0
  /\ inflight = <<>>
  /\ last = NoCall
  /\ lastPut = Null
  /\ everPut = {}
  /\ vModule = MinimalModule
  /\ vBytes \in RawInputs
  /\ vResult = NoCall
  /\ xGuest = NotAModule
  /\ xInput = <<>>
  /\ xResult = NoCall
  /\ limit = MaxEvents
  /\ scratch = <<>>
  /\ uuidsIssued = 0
  /\ spawned = 0

SpecValidateBytes == InitValidateBytes /\ [][NextValidate]_vars

(***************************************************************************)
(* GET /events against logs of every length around the default and the     *)
(* largest limit: an earlier session compiled the same faulty source that  *)
(* many times.                                                             *)
(***************************************************************************)
LogSizes ==
  {0, 1, DEFAULT_LIMIT - 1, DEFAULT_LIMIT, DEFAULT_LIMIT + 1,
   MAX_LIMIT - 1, MAX_LIMIT, MAX_LIMIT + 1}

FailedCompileRow(n) ==
  EventRow(n, [NoEventArgs EXCEPT !.type = Some("compile"),
                                  !.language = Some("assemblyscript"),
                                  !.inputHash = Some(hash(Utf8(SourceE))),
                                  !.durationMs = Some(0),
                                  !.success = FALSE,
                                  !.error = Some("ERROR TS1005")], 0)

\* the values of ?limit=: none, "", "0", "-0", "-1", "-500", "abc", "1", "2",
\* "49", "50", "51", "500", "501", "1000", " 7", "+5", "3.9", "1e3", "0x10"
LimitQueries ==
  {Null, Some(<<>>), Some(<<48>>), Some(<<45, 48>>), Some(<<45, 49>>),
   Some(<<45, 53, 48, 48>>), Some(<<97, 98, 99>>), Some(<<49>>), Some(<<50>>),
   Some(<<52, 57>>), Some(<<53, 48>>), Some(<<53, 49>>), Some(<<53, 48, 48>>),
   Some(<<53, 48, 49>>), Some(<<49, 48, 48, 48>>), Some(<<32, 55>>), Some(<<43, 53>>),
   Some(<<51, 46, 57>>), Some(<<49, 101, 51>>), Some(<<48, 120, 49, 48>>)}

InitEvents ==
  /\ \E n \in LogSizes :
       /\ events = [k \in 1..n |-> FailedCompileRow(k)]
       /\ sqlite_sequence = n
       /\ blobs = IF n = 0 THEN <<>> ELSE putBlob(<<>>, Str(SourceE), 0).blobs
       /\ everPut = IF n = 0 THEN {} ELSE {Utf8(SourceE)}
       /\ limit = n
  /\ aliases = <<>>
  /\ now = 0
  /\ inflight = <<>>
  /\ last = NoCall
  /\ lastPut = Null
  /\ vModule = MinimalModule
  /\ vBytes = <<>>
  /\ vResult = NoCall
  /\ xGuest = NotAModule
  /\ xInput = <<>>
  /\ xResult = NoCall
  /\ scratch = <<>>
  /\ uuidsIssued = 0
  /\ spawned = 0

NextEvents ==
  \/ Deliver
  \/ \E q \in LimitQueries : EventsRoute(q)

SpecEvents == InitEvents /\ [][NextEvents]_vars

TypeOK ==
  /\ HashHasNoCollisions
  /\ now \in 0..MaxClock
  /\ Len(events) <= limit
  /\ Len(inflight) <= MaxInflight

(***************************************************************************)
(* Properties of the store and of the routes, checked under Spec.          *)
(***************************************************************************)

\* when the request behind an event started: its commit time less its duration
Start(e) == e.timestamp - (IF e.duration_ms = Null THEN 0 ELSE Val(e.duration_ms))

\* C1: every alias in the registry points to a hash that has a row in the
\* blob table, in every reachable state.
C1_AliasTargetExists ==
  \A n \in DOMAIN aliases : aliases[n].hash \in DOMAIN blobs

\* an alias has just been set by PUT /alias and is in the registry
C1_Witness ==
  /\ last.op = "PUT /alias"
  /\ last.status = 200
  /\ last.name \in DOMAIN aliases
  /\ aliases[last.name].hash = Val(last.hash)

\* C2: every blob row is keyed by the hash of its own bytes and its size
\* column is the number of those bytes.
C2_BlobHashAndSize ==
  \A h \in DOMAIN blobs :
    /\ h = hash(blobs[h].data)
    /\ blobs[h].size = Len(blobs[h].data)

\* a compile source given as a string of non-ASCII characters, its wasm
\* output, a run input and an empty run output are all stored
C2_Witness ==
  {hash(Utf8(SourceE)), hash(GoodWasm), hash(BodyH), hash(<<>>)} \subseteq DOMAIN blobs

\* C3: putBlob of bytes that were put before returns the same hash and
\* leaves the blob table as it was: no new row, and the existing row keeps
\* its data, its size and its created_at.
C3_PutBlobIdempotent ==
  [][(lastPut' # Null /\ Val(lastPut').arg \in everPut)
       => /\ Val(lastPut').ret = hash(Val(lastPut').arg)
          /\ Val(lastPut').ret \in DOMAIN blobs
          /\ blobs' = blobs]_vars

\* bytes have just been put again, later than the time their row was created
C3_Witness ==
  /\ lastPut # Null
  /\ Val(lastPut).ret \in DOMAIN blobs
  /\ blobs[Val(lastPut).ret].created_at < now

\* C4: for any bytes x, the empty sequence included, getBlob of the hash
\* putBlob(x) returned gives exactly x, right after the put and after any
\* later operations.
C4_GetBlobReturnsPut ==
  /\ lastPut # Null => getBlob(blobs, Val(lastPut).ret) = Some(Val(lastPut).arg)
  /\ \A x \in everPut : getBlob(blobs, hash(x)) = Some(x)

\* the empty sequence was put, and other requests were served afterwards
C4_Witness ==
  /\ <<>> \in everPut
  /\ Cardinality(everPut) >= 3
  /\ lastPut = Null
  /\ last.op = "GET /blob"

\* C5: no step removes a blob row or changes one: a hash that is in the
\* table stays in it with the same data, size and created_at.
C5_BlobsImmutable ==
  [][\A h \in DOMAIN blobs : h \in DOMAIN blobs' /\ blobs'[h] = blobs[h]]_vars

\* a row created earlier is still there after the same bytes were put again
C5_Witness ==
  /\ lastPut # Null
  /\ \E h \in DOMAIN blobs : h = hash(Val(lastPut).arg) /\ blobs[h].created_at < now
  /\ Cardinality(DOMAIN blobs) >= 2

\* C6: resolveRef gives an alias precedence over a hash: for a ref that
\* names an alias it returns the alias's target hash and the alias name,
\* even when a blob has the ref as its hash; for a ref that names no alias
\* it returns the ref as a hash when such a blob exists, and null otherwise.
C6_AliasPrecedence ==
  last.op = "GET /blob" =>
    IF last.ref \in DOMAIN aliases
      THEN last.resolved =
             Some([hash |-> aliases[last.ref].hash, alias |-> Some(last.ref)])
    ELSE IF last.ref \in DOMAIN blobs
      THEN last.resolved = Some([hash |-> last.ref, alias |-> Null])
    ELSE last.resolved = Null

\* the ref of a GET /blob is an alias and the hash of a blob at once, and
\* the alias points to another blob, whose bytes the response carries
C6_Witness ==
  /\ last.op = "GET /blob"
  /\ last.ref \in DOMAIN aliases
  /\ last.ref \in DOMAIN blobs
  /\ aliases[last.ref].hash # last.ref
  /\ last.status = 200
  /\ last.body = blobs[aliases[last.ref].hash].data

\* C7: event ids are strictly increasing in commit order: of two events in
\* the log the one committed first has the smaller id, whatever the order
\* in which their requests started.
C7_IdsFollowCommitOrder ==
  \A i \in DOMAIN events, j \in DOMAIN events :
    (i < j) <=> (events[i].id < events[j].id)

\* the request that started first was committed last and has the larger id
C7_Witness ==
  \E i \in DOMAIN events, j \in DOMAIN events :
    /\ i < j
    /\ Start(events[j]) < Start(events[i])
    /\ events[i].id < events[j].id

\* C8: the event log is append-only: a step leaves the log as it was or
\* appends to it, so an event once written keeps its id and all its fields
\* and is never removed.
C8_EventLogAppendOnly ==
  [][/\ Len(events') >= Len(events)
     /\ SubSeq(events', 1, Len(events)) = events]_vars

\* an event written earlier is still in the log, in front of a later one
C8_Witness ==
  /\ Len(events) >= 2
  /\ events[1].timestamp < events[2].timestamp

\* C9: setAlias with a hash that no blob has returns null, PUT /alias answers
\* 400, and the alias registry is left as it was: no alias of that name is
\* created and an existing one keeps its hash and its timestamps.
C9_SetAliasMissingBlobRejected ==
  [][(/\ last'.op = "PUT /alias"
      /\ OrNullStr(last'.hash) # Null
      /\ Val(last'.hash) \notin DOMAIN blobs)
       => /\ setAlias(aliases, blobs, last'.name, Val(last'.hash), now).ret = Null
          /\ last'.status = 400
          /\ aliases' = aliases]_vars

\* PUT /alias with the hash of no blob was answered 400 while an alias of
\* that name exists, created earlier and never updated
C9_Witness ==
  /\ last.op = "PUT /alias"
  /\ last.hash = Some(MissingHash)
  /\ MissingHash \notin DOMAIN blobs
  /\ last.status = 400
  /\ last.name \in DOMAIN aliases
  /\ aliases[last.name].updated_at < now

(***************************************************************************)
(* Properties of validate, checked under SpecValidate.                     *)
(***************************************************************************)

\* C10: for every well-formed module validate returns a result whose valid
\* is true exactly when the module exports `memory` as a memory and `run`
\* as a function of type (i32, i32, i32) -> (i32), and valid is true exactly
\* when errors is empty; exports under other names change neither.
C10_ValidIffConforms ==
  vResult.op = "POST /validate" =>
    /\ ~vResult.result.threw
    /\ vResult.result.valid <=> Conforms(vModule)
    /\ vResult.result.valid <=> (vResult.result.errors = <<>>)

\* C11: validate never raises: for every byte sequence it returns a result
\* record, and for a sequence that does not start with the wasm magic the
\* record is {valid: false, errors: ["Invalid wasm binary: <msg>"]}.
C11_ValidateNeverRaises ==
  vResult.op = "POST /validate" =>
    /\ ~vResult.result.threw
    /\ (Len(vBytes) < 4 \/ ReadBytes(vBytes, 0, 4).v # WasmMagic)
         => /\ ~vResult.result.valid
            /\ vResult.result.errors = <<"Invalid wasm binary: Not a wasm module">>

(***************************************************************************)
(* Properties of compile requests, stated for SpecCompile.                 *)
(***************************************************************************)

\* C12: contract validation never fails a compile: whenever the toolchain
\* succeeded and its output file was read, whatever its bytes, the request
\* answers 200 with those bytes, the bytes are stored as a blob, and one
\* compile event with success = 1 and that blob's hash as output_hash is
\* appended.
C12_ValidationNeverFailsCompile ==
  [][(/\ last'.op = "POST /compile"
      /\ last'.toolchain # Null
      /\ Val(last'.toolchain).ok)
       => LET wasm == Val(last'.toolchain).wasm
          IN  /\ last'.status = 200
              /\ last'.body = wasm
              /\ getBlob(blobs', hash(wasm)) = Some(wasm)
              /\ Len(events') = Len(events) + 1
              /\ events'[Len(events')].type = "compile"
              /\ events'[Len(events')].success = 1
              /\ events'[Len(events')].output_hash = Some(hash(wasm))]_vars

\* C13: when the toolchain fails (non-zero exit, timeout, output over the
\* buffer bound, output file missing), the request appends exactly one
\* compile event with success = 0, the request's language, the hash of the
\* source as input_hash, no output_hash and the captured message as error;
\* it stores no blob, the source blob stays in the store, and the answer
\* is 400.
C13_ToolchainFailureRecorded ==
  [][(/\ last'.op = "POST /compile"
      /\ last'.toolchain # Null
      /\ ~Val(last'.toolchain).ok)
       => LET err == Val(last'.toolchain).err
              e == events'[Len(events')]
          IN  /\ last'.status = 400
              /\ Len(events') = Len(events) + 1
              /\ SubSeq(events', 1, Len(events)) = events
              /\ e.type = "compile"
              /\ e.success = 0
              /\ e.language = Some(last'.lang)
              /\ e.input_hash = Some(hash(Utf8(last'.source)))
              /\ e.output_hash = Null
              /\ e.error # Null
              /\ e.error = (IF err.stderr # Null /\ err.stderr # Some("")
                              THEN err.stderr ELSE Some(err.message))
              /\ blobs' = blobs
              /\ getBlob(blobs', hash(Utf8(last'.source))) = Some(Utf8(last'.source))]_vars

\* a toolchain that wrote nothing to stderr failed, the request was answered
\* 400, its event is the last of the log and its source is in the store
C13_Witness ==
  /\ last.op = "POST /compile"
  /\ last.toolchain # Null
  /\ ~Val(last.toolchain).ok
  /\ Val(last.toolchain).err.stderr \in {Null, Some("")}
  /\ last.status = 400
  /\ Len(events) >= 1
  /\ events[Len(events)].success = 0
  /\ events[Len(events)].error = Some(Val(last.toolchain).err.message)
  /\ hash(Utf8(last.source)) \in DOMAIN blobs

\* the request is answered 200: the toolchain succeeded, the validator
\* returned, and the response headers could be written
CompileSucceeds(outcome) ==
  /\ outcome.ok
  /\ ~validate(outcome.wasm).threw
  /\ ~WarningsHeaderThrows(validate(outcome.wasm).warnings)

\* C20: when a compile request has been answered, the removal of its
\* scratch directory has been issued if tmpDir created one, on the success
\* path and on every failure path (toolchain failure, timeout, an
\* exception after the directory was created), and the answer is what the
\* toolchain and the validator make it, whether the removal succeeds or not.
C20_ScratchDirRemoved ==
  (last.op = "POST /compile" /\ last.toolchain # Null)
    => /\ Val(last.toolchain).dir => last.rmIssued
       /\ (last.status = 200) <=> CompileSucceeds(Val(last.toolchain))
       /\ last.status \in {200, 400}

\* a request that threw after its directory was created (the validator
\* raised on the output) has been answered 400, and the removal, which was
\* issued, has failed
C20_Witness ==
  /\ last.op = "POST /compile"
  /\ last.toolchain # Null
  /\ Val(last.toolchain).ok
  /\ Val(last.toolchain).dir
  /\ last.status = 400
  /\ last.rmIssued
  /\ last.rmFailed

\* the events a step appends to the log
Appended == SubSeq(events', Len(events) + 1, Len(events'))

\* the events of a type among them
AppendedOf(type) == {k \in DOMAIN Appended : Appended[k].type = type}

\* C17: exactly one event per logical operation: a compile request that
\* passed the language and body checks has appended exactly one compile
\* event when it is answered, a run request whose module and input resolved
\* exactly one execute event, a successful alias PUT or DELETE exactly one
\* alias event; a step that answers none of these appends no such event.
C17_OneEventPerOperation ==
  [][/\ SubSeq(events', 1, Len(events)) = events
     /\ Cardinality(AppendedOf("compile")) =
          (IF last'.op = "POST /compile" /\ last # last' /\ last'.toolchain # Null
             THEN 1 ELSE 0)
     /\ Cardinality(AppendedOf("execute")) =
          (IF last'.op = "POST /run" /\ last # last' /\ last'.status \in {200, 400}
             THEN 1 ELSE 0)
     /\ Cardinality(AppendedOf("alias")) =
          (IF last'.op \in {"PUT /alias", "DELETE /alias"} /\ last # last'
                /\ last'.status = 200
             THEN 1 ELSE 0)]_vars

(***************************************************************************)
(* Properties of ref resolution, stated for SpecRun.                       *)
(***************************************************************************)

\* the refs a step has resolved, as resolveRef returned them: those of the
\* run request it started or answered 404, or that of the blob request
StepResolutions ==
  IF Len(inflight') > Len(inflight)
    THEN (IF inflight'[Len(inflight')].route = "run"
            THEN inflight'[Len(inflight')].resolutions ELSE <<>>)
  ELSE IF last' # last /\ last'.op = "POST /run" /\ last'.status = 404
    THEN last'.resolutions
  ELSE IF last' # last /\ last'.op \in {"GET /blob", "HEAD /blob"} /\ last'.resolved # Null
    THEN <<Val(last'.resolved)>>
  ELSE <<>>

ViaAlias(resolved) == resolved.alias # Null
IsResolveEvent(e) == e.type = "resolve"

\* C18: every resolution of a ref that was an alias records exactly one
\* resolve event with the alias name and the hash it resolved to, for the
\* module ref and the ?input= ref of POST /run and for the ref of GET and
\* HEAD /blob; a ref that resolved as a hash records none.
C18_ResolveEventPerAliasResolution ==
  [][LET viaAlias == SelectSeq(StepResolutions, ViaAlias)
         resolves == SelectSeq(Appended, IsResolveEvent)
     IN  /\ Len(resolves) = Len(viaAlias)
         /\ \A k \in DOMAIN resolves :
              /\ resolves[k].alias = viaAlias[k].alias
              /\ resolves[k].output_hash = Some(viaAlias[k].hash)
              /\ resolves[k].success = 1]_vars

(***************************************************************************)
(* Properties of run requests, stated for SpecRun.                         *)
(***************************************************************************)

\* the execution of guest g on inputBytes fails: instantiation fails, an
\* export is missing, the memory cannot grow, _initialize or run traps, or
\* the length run returns, an unsigned 32-bit integer, is over MAX_OUTPUT
ExecutionFails(g, inputBytes) ==
  \/ ~g.compiles \/ ~g.hasRun \/ ~g.hasMemory
  \/ (g.hasInit /\ g.initTraps)
  \/ (g.pages < NeededPages /\ g.maxPages # Null /\ Val(g.maxPages) < NeededPages)
  \/ g.runTraps
  \/ g.ret < 0 \/ g.ret > MAX_OUTPUT

\* C14: when the execution of a run request fails, the request appends
\* exactly one execute event with success = 0, the module's and the input's
\* hash, and no output_hash; it stores no blob, answers with an error, and
\* leaves the aliases and the rest of the log as they were.
C14_ExecutionFailureRecorded ==
  [][(/\ last'.op = "POST /run"
      /\ last'.status \in {200, 400}
      /\ ExecutionFails(last'.guest, last'.input))
       => LET e == events'[Len(events')]
          IN  /\ last'.status = 400
              /\ Len(events') = Len(events) + 1
              /\ SubSeq(events', 1, Len(events)) = events
              /\ e.type = "execute"
              /\ e.success = 0
              /\ e.module_hash = Some(last'.moduleHash)
              /\ e.input_hash = Some(last'.inputHash)
              /\ e.output_hash = Null
              /\ blobs' = blobs
              /\ aliases' = aliases]_vars

\* a run request has just been answered after its execution, and its module
\* ref was an alias
RunViaAliasAnswered(l) ==
  /\ l.op = "POST /run"
  /\ l.status \in {200, 400}
  /\ l.resolutions[1].alias # Null

\* C19: a run request whose module ref is an alias m pointing to H leaves a
\* resolve event (alias = m, output_hash = H, success = 1) and then an
\* execute event with module_hash = H in the log, the resolve event first
\* and with the smaller id, whatever other requests have appended between
\* the two.
C19_ResolveBeforeExecute ==
  [][(last' # last /\ RunViaAliasAnswered(last'))
       => LET e == events'[Len(events')]
              m == last'.resolutions[1]
          IN  /\ e.type = "execute"
              /\ e.module_hash = Some(m.hash)
              /\ \E k \in 1..(Len(events') - 1) :
                   /\ events'[k].id = last'.moduleResolveId
                   /\ events'[k].type = "resolve"
                   /\ events'[k].alias = m.alias
                   /\ events'[k].output_hash = Some(m.hash)
                   /\ events'[k].success = 1
                   /\ events'[k].id < e.id]_vars

\* a run through the alias has been answered, and the log has an event of
\* another request between its resolve event and its execute event
C19_Witness ==
  /\ RunViaAliasAnswered(last)
  /\ events[Len(events)].type = "execute"
  /\ \E k \in 1..(Len(events) - 2) :
       /\ events[k].id = last.moduleResolveId
       /\ events[k].type = "resolve"
       /\ events[k + 1].type \in {"alias", "execute"}

(***************************************************************************)
(* Properties of executeModule, stated for SpecExecute.                    *)
(***************************************************************************)

\* run has returned: the module was instantiated, has its exports, grew its
\* memory, took the input, and neither _initialize nor run trapped
RunReturned(g, inputBytes) ==
  /\ g.compiles /\ g.hasRun /\ g.hasMemory
  /\ ~(g.hasInit /\ g.initTraps)
  /\ ~g.runTraps
  /\ (g.pages >= NeededPages \/ g.maxPages = Null \/ Val(g.maxPages) >= NeededPages)
  /\ Len(inputBytes) <= Max(g.pages, NeededPages) * PageSize

\* C15: the harness enforces the output bound: when run returns a length
\* of at most 65536 the execution succeeds, when it returns 65537 or more
\* (a value with the sign bit set is at least 2^31) the execution fails,
\* and no successful execution yields more than MAX_OUTPUT bytes.
C15_OutputBoundEnforced ==
  xResult.op = "executeModule" =>
    /\ RunReturned(xGuest, xInput) =>
         (xResult.result.ok <=> (xGuest.ret >= 0 /\ xGuest.ret <= MAX_OUTPUT))
    /\ xResult.result.ok => xResult.result.count <= MAX_OUTPUT

\* C16: on a successful execution the output is exactly the n bytes of
\* memory from OUTPUT_PTR on, n being the value run returned read as an
\* unsigned 32-bit integer; a value with the sign bit set is a length of at
\* least 2^31, more than any memory here holds, so no output can be it.
C16_OutputIsUnsignedSlice ==
  (xResult.op = "executeModule" /\ xResult.result.ok) =>
    /\ xGuest.ret >= 0
    /\ xResult.result.from = OUTPUT_PTR
    /\ xResult.result.count = xGuest.ret

(***************************************************************************)
(* Properties of the events query, stated for SpecEvents.                  *)
(***************************************************************************)

\* C21: whatever the ?limit= value (absent, zero, negative, not a number,
\* over 500), GET /events returns at most 500 events, at most 50 when no
\* limit is given, and the events returned are the most recently committed
\* ones, in strictly descending id order.
C21_EventsQueryBounded ==
  last.op = "GET /events" =>
    /\ Len(last.body) <= MAX_LIMIT
    /\ last.query = Null => Len(last.body) = Min(DEFAULT_LIMIT, Len(events))
    /\ \A k \in DOMAIN last.body : last.body[k] = events[Len(events) - k + 1]
    /\ \A k \in 1..(Len(last.body) - 1) : last.body[k].id > last.body[k + 1].id

(***************************************************************************)
(* Properties of rejected requests.                                        *)
(***************************************************************************)

\* the request a step has answered is one a client got wrong: a compile
\* with a language that names no toolchain or with an empty body, a run
\* whose module ref or ?input= ref resolves to nothing, an alias PUT with
\* no hash or with the hash of no blob, an alias DELETE of an absent name
ClientInvalid(l) ==
  \/ /\ l.op = "POST /compile"
     /\ (l.lang \notin compilers \/ (l.status = 400 /\ l.toolchain = Null))
  \/ /\ l.op = "POST /run"
     /\ l.status = 404
     /\ l.error \in {"Module not found", "Input not found"}
  \/ /\ l.op = "PUT /alias"
     /\ l.status = 400
  \/ /\ l.op = "DELETE /alias"
     /\ l.status = 404

\* C22: a request rejected as client-invalid appends no event: the step
\* that answers it leaves the event log and its id counter exactly as they
\* were before the request arrived.
C22_ClientInvalidAppendsNoEvent ==
  [][(last' # last /\ ClientInvalid(last'))
       => /\ events' = events
          /\ sqlite_sequence' = sqlite_sequence]_vars

(***************************************************************************)
(* Properties of the alias registry, stated for SpecAlias.                 *)
(***************************************************************************)

\* a step has answered a PUT /alias with 200
AliasSet == last' # last /\ last'.op = "PUT /alias" /\ last'.status = 200

\* C23: the first setAlias of a name records created_at = updated_at; a
\* later setAlias of the name, existing still, sets its hash and its
\* updated_at and keeps its created_at; a setAlias after the name was
\* deleted starts a record with created_at = updated_at again; and
\* updated_at >= created_at in every alias at all times.
C23_AliasUpsertTimestamps ==
  /\ [](\A n \in DOMAIN aliases : aliases[n].updated_at >= aliases[n].created_at)
  /\ [][AliasSet =>
          LET n == last'.name
          IN  /\ n \in DOMAIN aliases'
              /\ aliases'[n].hash = Val(last'.hash)
              /\ aliases'[n].updated_at = now
              /\ aliases'[n].created_at =
                   (IF n \in DOMAIN aliases THEN aliases[n].created_at
                    ELSE aliases'[n].updated_at)]_vars

\* the alias "main", created at time 0, has been set again later to another
\* hash, and the alias "dev" has been set for the first time
C23_Witness ==
  /\ AliasMain \in DOMAIN aliases
  /\ aliases[AliasMain].created_at = 0
  /\ aliases[AliasMain].updated_at > 0
  /\ aliases[AliasMain].hash # hash(GoodWasm)
  /\ AliasDev \in DOMAIN aliases
  /\ aliases[AliasDev].created_at = aliases[AliasDev].updated_at

\* a step has answered a DELETE /alias
AliasDeleteAnswered == last' # last /\ last'.op = "DELETE /alias"

\* C24: deleteAlias(name) returns true exactly when an alias of that name
\* existed; the step removes that alias and no other, leaves every blob
\* stored, and records an alias event with the hash the alias pointed to;
\* from then on the name is absent (GET /alias answers 404 and a ref of that
\* name does not resolve through an alias) until a PUT /alias sets it again.
C24_DeleteAlias ==
  /\ [][AliasDeleteAnswered =>
          LET n == last'.name
          IN  /\ (last'.status = 200) <=> (n \in DOMAIN aliases)
              /\ (last'.status = 404) <=> (n \notin DOMAIN aliases)
              /\ DOMAIN aliases' = DOMAIN aliases \ {n}
              /\ \A o \in DOMAIN aliases' : aliases'[o] = aliases[o]
              /\ blobs' = blobs
              /\ IF n \in DOMAIN aliases
                   THEN /\ aliases[n].hash \in DOMAIN blobs'
                        /\ Len(events') = Len(events) + 1
                        /\ events'[Len(events')].type = "alias"
                        /\ events'[Len(events')].alias = Some(n)
                        /\ events'[Len(events')].output_hash = Some(aliases[n].hash)
                   ELSE events' = events]_vars
  /\ [][\A n \in DOMAIN aliases' \ DOMAIN aliases : AliasSet /\ last'.name = n]_vars
  /\ [](last.op = "GET /alias" =>
          IF last.name \in DOMAIN aliases
            THEN last.status = 200 /\ last.body.hash = aliases[last.name].hash
            ELSE last.status = 404)
  /\ []((last.op = "GET /blob" /\ last.ref \notin DOMAIN aliases) =>
          (last.resolved = Null \/ Val(last.resolved).alias = Null))

\* the alias "main" was deleted while the alias "dev" exists; the event of
\* the deletion carries the hash "main" pointed to, the blob of that hash
\* is stored, and a GET /alias/main has been answered 404 since
C24_Witness ==
  /\ last.op = "GET /alias"
  /\ last.name = AliasMain
  /\ last.status = 404
  /\ AliasDev \in DOMAIN aliases
  /\ events[Len(events)].type = "alias"
  /\ events[Len(events)].alias = Some(AliasMain)
  /\ events[Len(events)].output_hash = Some(hash(GoodWasm))
  /\ hash(GoodWasm) \in DOMAIN blobs

(***************************************************************************)
(* Concurrent compiles.                                                    *)
(***************************************************************************)
\* request i has had its subprocess started
HasSubprocess(i) == inflight[i].stage \in {"exec", "readFile"}

\* an accepted compile request has been answered in the step just taken
CompileAnswered == last.op = "POST /compile" /\ last.toolchain # Null

C26_ScratchDirsNeverShared ==
  /\ [](\A i, j \in DOMAIN inflight : i # j => inflight[i].dir # inflight[j].dir)
  /\ [](\A i \in DOMAIN inflight :
          inflight[i].stage \in {"writeFile", "exec", "readFile"}
            => /\ inflight[i].dir \in DOMAIN scratch
               /\ (inflight[i].stage = "readFile"
                     /\ scratch[inflight[i].dir].output # Null)
                    => Val(scratch[inflight[i].dir].output).by = inflight[i].pid)
  /\ [][\A d \in DOMAIN scratch \ DOMAIN scratch' :
          \A j \in DOMAIN inflight' : inflight'[j].dir # d]_vars

\* a request has been answered and its directory is removed, while another
\* request, in flight with it, still has its own directory with the output
\* file its own subprocess wrote
C26_Witness ==
  /\ CompileAnswered
  /\ last.rmIssued /\ ~last.rmFailed
  /\ last.pid = 1
  /\ last.dir \notin DOMAIN scratch
  /\ Len(inflight) = 1
  /\ inflight[1].stage = "readFile"
  /\ inflight[1].dir \in DOMAIN scratch
  /\ scratch[inflight[1].dir].output # Null
  /\ Val(scratch[inflight[1].dir].output).by = 2
\* the request of UUID u has left the service in the step just taken
Leaves(u) == InFlight(u) /\ ~InFlight(u)'

\* the subprocess of the request of UUID u has run into the timeout
AtTimeout(u) ==
  \E i \in DOMAIN inflight :
    /\ inflight[i].dir = TmpDirName(u, inflight[i].inputHash)
    /\ inflight[i].stage = "exec"
    /\ TimedOut(inflight[i].started, now)

\* C27: every compile request that passed the language and body checks
\* eventually completes; none stays in flight forever.  A subprocess that
\* has run for EXEC_TIMEOUT does not exit with a result any more.  The step
\* in which a request leaves is the one that answers it: it appends to the
\* log a compile event of its source, and it issues the removal of the
\* directory whenever one was made, as it was for every request that had a
\* subprocess; a request that leaves at the timeout is answered 400, and its
\* event is a failure with a duration of at least EXEC_TIMEOUT.
C27_AcceptedCompileCompletes ==
  /\ \A u \in Uuids : InFlight(u) ~> ~InFlight(u)
  /\ [][\A i \in DOMAIN inflight :
          (inflight[i].stage = "exec" /\ TimedOut(inflight[i].started, now))
            => \A j \in DOMAIN inflight' :
                 inflight'[j].dir = inflight[i].dir => inflight'[j] = inflight[i]]_vars
  /\ [][\A u \in Uuids :
          /\ Leaves(u) =>
               /\ CompileAnswered' /\ last' # last
               /\ last'.dir = TmpDirName(u, last'.inputHash)
               /\ last'.status \in {200, 400}
               /\ Len(events') > Len(events)
               /\ events'[Len(events')].type = "compile"
               /\ events'[Len(events')].input_hash = Some(last'.inputHash)
               /\ Val(last'.toolchain).dir => last'.rmIssued
               /\ last'.pid > 0 => last'.rmIssued
               /\ AtTimeout(u) =>
                    /\ last'.status = 400
                    /\ events'[Len(events')].success = 0
                    /\ Val(events'[Len(events')].duration_ms) >= EXEC_TIMEOUT]_vars

\* a request whose subprocess ran into the timeout has been answered 400,
\* its failure is in the log with the duration, and the removal of its
\* directory was issued
C27_Witness ==
  /\ CompileAnswered
  /\ last.pid > 0
  /\ now >= EXEC_TIMEOUT
  /\ last.status = 400
  /\ ~Val(last.toolchain).ok
  /\ Val(last.toolchain).err = ExecReject("Command failed", "", "")
  /\ last.rmIssued
  /\ ~InFlight(1)
  /\ Len(events) = 1
  /\ events[1].success = 0
  /\ events[1].duration_ms = Some(EXEC_TIMEOUT)
(***************************************************************************)
(* The harness, statement by statement.                                    *)
(***************************************************************************)
\* the calls the harness has made so far
Calls == IF xResult = NoCall THEN <<>> ELSE xResult.calls

\* the positions in Calls of the calls of fn
CallsOf(fn) == {k \in DOMAIN Calls : Calls[k].fn = fn}

\* C28: when run is invoked the memory has at least
\* ceil((OUTPUT_PTR + MAX_OUTPUT) / 65536) = 2 pages.  The harness calls
\* grow at most once in an invocation, only with the memory below 2 pages,
\* and by the difference to 2; a grow that fails fails the execution, and
\* run is not invoked.
C28_MemoryGrownToContractMinimum ==
  /\ NeededPages = 2
  /\ \A k \in CallsOf("run") : Calls[k].pages >= NeededPages
  /\ Cardinality(CallsOf("grow")) <= 1
  /\ \A k \in CallsOf("grow") :
       /\ Calls[k].pages < NeededPages
       /\ Calls[k].arg = NeededPages - Calls[k].pages
       /\ (k < Len(Calls) => Calls[k + 1].pages = NeededPages)
       /\ (k = Len(Calls) /\ xResult.pages < NeededPages)
            => /\ xResult.pc = "done"
               /\ ~Val(xResult.result).ok
               /\ Val(xResult.result).message = "Maximum memory size exceeded"

\* an execution has returned for a guest whose memory had one page: the
\* harness grew it once, by one page, and run was invoked with two
C28_Witness ==
  /\ xResult # NoCall
  /\ xResult.pc = "done"
  /\ Val(xResult.result).ok
  /\ xGuest.pages = 1
  /\ \E k \in CallsOf("grow") : Calls[k].pages = 1 /\ Calls[k].arg = 1
  /\ \E k \in CallsOf("run") : Calls[k].pages = 2
\* C29: the harness takes its steps in the order grow, copy of the input,
\* _initialize, run: _initialize is invoked once if the module exports it
\* and not otherwise, after the grow and with the input in memory, and
\* never after run; run is invoked once, after all of them, in every
\* execution that returns.
C29_HarnessStepOrder ==
  /\ Cardinality(CallsOf("_initialize")) <= 1
  /\ Cardinality(CallsOf("run")) <= 1
  /\ CallsOf("_initialize") # {} => xGuest.hasInit
  /\ \A k \in CallsOf("grow") : \A l \in CallsOf("set") : k < l
  /\ \A k \in CallsOf("set") : \A l \in CallsOf("_initialize") : k < l
  /\ \A k \in CallsOf("_initialize") :
       /\ Calls[k].copied
       /\ \A l \in CallsOf("grow") : l < k
       /\ \A l \in CallsOf("run") : k < l
  /\ \A k \in CallsOf("run") :
       /\ Calls[k].copied
       /\ xGuest.hasInit => CallsOf("_initialize") # {}
       /\ k = Len(Calls)
  /\ (xResult # NoCall /\ xResult.pc = "done" /\ Val(xResult.result).ok)
       => Cardinality(CallsOf("run")) = 1

\* the order the harness keeps: _initialize first, if the module exports
\* it, once, before the grow and before the input is copied; then at most
\* one grow, the copy of the input, and run, once and last
HarnessOrderKept ==
  /\ Cardinality(CallsOf("_initialize")) <= 1
  /\ Cardinality(CallsOf("run")) <= 1
  /\ CallsOf("_initialize") # {} => xGuest.hasInit
  /\ \A k \in CallsOf("_initialize") : k = 1 /\ ~Calls[k].copied
  /\ \A k \in CallsOf("grow") : \A l \in CallsOf("set") : k < l
  /\ \A k \in CallsOf("run") :
       /\ Calls[k].copied
       /\ xGuest.hasInit => CallsOf("_initialize") # {}
       /\ k = Len(Calls)
  /\ (xResult # NoCall /\ xResult.pc = "done" /\ Val(xResult.result).ok)
       => Cardinality(CallsOf("run")) = 1
(***************************************************************************)
(* The type of run, checked under SpecResolve.                             *)
(***************************************************************************)
\* funcImports as parseImports returns it for the Import section of m
ParsedFuncImports(m) ==
  IF m.imports = <<>> THEN 0
  ELSE parseImports(EncVec([i \in DOMAIN m.imports |-> EncImport(m.imports[i])])).funcImports

NotMemoryError(e) == e # "Missing export: memory (kind: memory)"

\* C30: validate resolves the type of run through the count of function
\* imports: with run exported as function i and funcImports k (the number
\* of function imports, when the imports are functions and globals), it
\* takes entry i - k of the Function section and the entry of the Type
\* section that names: runSignature is that type, and there is a 'Wrong
\* signature' error exactly when it is not (i32, i32, i32) -> (i32).  When
\* i < k, when i - k is past the end of the Function section, or when the
\* type index is past the end of the Type section, there is one 'Cannot
\* resolve ...' error, the result is invalid, there is no 'Wrong signature'
\* error and runSignature is not set.
C30_RunTypeResolvedThroughImports ==
  vResult.op = "POST /validate" =>
    LET res == vResult.result
        i == Val(FindExport(vModule.exports, NameRun, EXPORT_FUNC)).index
        k == ParsedFuncImports(vModule)
        funcs == vModule.funcs
        types == vModule.types
        about == SelectSeq(res.errors, NotMemoryError)
    IN  /\ ~res.threw
        /\ res.valid <=> (res.errors = <<>>)
        /\ (\A n \in DOMAIN vModule.imports : vModule.imports[n].kind \in {0, 3})
             => k = CountKind(vModule.imports, 0)
        /\ IF i < k \/ i - k >= Len(funcs)
             THEN /\ about = <<"Cannot resolve type for run (func index "
                                \o DecString(i) \o ")">>
                  /\ ~res.valid
                  /\ res.info.runSignature = Null
           ELSE IF funcs[i - k + 1] >= Len(types)
             THEN /\ about = <<"Cannot resolve type index " \o DecString(funcs[i - k + 1])
                                \o " for run">>
                  /\ ~res.valid
                  /\ res.info.runSignature = Null
           ELSE LET type == types[funcs[i - k + 1] + 1]
                IN  /\ res.info.runSignature = Some(formatSig(type))
                    /\ about = IF type = TypeRun THEN <<>>
                               ELSE <<"Wrong signature for run: got " \o formatSig(type)
                                        \o ", expected (i32, i32, i32) -> (i32)">>

\* run is a re-exported import: the module imports two functions, has a
\* local function of the run type, and exports function 1 as run and its
\* memory; the result is invalid with the one error, and has no runSignature
C30_Witness ==
  /\ vResult.op = "POST /validate"
  /\ CountKind(vModule.imports, 0) = 2
  /\ vModule.funcs = <<0>>
  /\ vModule.types = TypeTable
  /\ vModule.exports = <<ExportRun(1), ExportMemory>>
  /\ ~vResult.result.valid
  /\ vResult.result.errors = <<"Cannot resolve type for run (func index 1)">>
  /\ vResult.result.info.runSignature = Null
(***************************************************************************)
(* Rejected compile requests, checked under SpecIntake.                    *)
(***************************************************************************)
\* the step just taken has answered a compile request that is to be
\* rejected: its language is none of the service, or it had no source
ToBeRejected ==
  /\ last' # last
  /\ last'.op = "POST /compile"
  /\ (last'.lang \notin compilers \/ last'.toolchain = Null)

\* C31: a compile request with an unknown language, or with an empty or
\* non-text source, is rejected before any work.  No such request is ever
\* in flight, so none has a scratch directory or a subprocess; the step
\* that answers it answers 400 and leaves the blobs, the aliases, the
\* events, the scratch directories and the subprocess count as they were.
C31_RejectedBeforeAnyWork ==
  /\ [](\A i \in DOMAIN inflight :
          inflight[i].lang \in compilers /\ inflight[i].source # <<>>)
  /\ [][ToBeRejected
          => /\ last'.status = 400
             /\ last'.toolchain = Null
             /\ UNCHANGED <<blobs, aliases, events, sqlite_sequence>>
             /\ UNCHANGED <<inflight, scratch, uuidsIssued, spawned>>]_vars

\* what holds of the requests the handler does reject, those with a
\* language that compilers[lang] does not find or with no source: the
\* answer is 400 and nothing else changes
RejectedLeaveNoTrace ==
  [][(last' # last /\ last'.op = "POST /compile" /\ last'.toolchain = Null)
       => /\ last'.status = 400
          /\ UNCHANGED <<blobs, aliases, events, sqlite_sequence>>
          /\ UNCHANGED <<inflight, scratch, uuidsIssued, spawned>>]_vars
(***************************************************************************)
(* The blob references of the event log.                                   *)
(***************************************************************************)
\* the blob references of an event row that are not null
HashesOf(e) ==
  {Val(r) : r \in {e.input_hash, e.output_hash, e.module_hash} \ {Null}}

\* C32: in every reachable state every input_hash, output_hash and
\* module_hash of every event that is not null is the hash of a blob in the
\* store, whatever the type of the event and whether it records a success,
\* a failure or the deletion of an alias.
C32_EventHashesReferToBlobs ==
  \A k \in DOMAIN events : \A h \in HashesOf(events[k]) : h \in DOMAIN blobs

\* the alias was resolved for a run that failed, and was then deleted: the
\* log has the resolve event, the execute event of the failure with its
\* module and input hashes and no output hash, and the alias event of the
\* deletion with the hash the alias had, all of blobs in the store
C32_Witness ==
  /\ last.op = "DELETE /alias"
  /\ last.status = 200
  /\ Len(events) = Len(SeedEvents) + 3
  /\ events[Len(events) - 2].type = "resolve"
  /\ events[Len(events) - 2].output_hash # Null
  /\ events[Len(events) - 1].type = "execute"
  /\ events[Len(events) - 1].success = 0
  /\ events[Len(events) - 1].module_hash # Null
  /\ events[Len(events) - 1].input_hash # Null
  /\ events[Len(events) - 1].output_hash = Null
  /\ events[Len(events)].type = "alias"
  /\ events[Len(events)].output_hash # Null
  /\ \A k \in DOMAIN events : \A h \in HashesOf(events[k]) : h \in DOMAIN blobs

(* C33: a run request is pinned to the module it resolved when it began.  *)
(* Whenever a run leaves flight, the execute event it records carries the *)
(* hash that the resolve event of its start recorded (or the hash given   *)
(* as the reference), the response's X-Module-Hash is that hash, and the  *)
(* module that ran behaves as the data of that blob, whatever the alias   *)
(* names by then.                                                         *)
StartedWith(answer, ev) ==
  IF answer.moduleResolveId = 0
    THEN {r.hash : r \in {s \in {answer.resolutions[1]} : s.alias = Null}}
    ELSE {Val(ev[k].output_hash) :
            k \in {n \in DOMAIN ev : /\ ev[n].id = answer.moduleResolveId
                                     /\ ev[n].type = "resolve"
                                     /\ ev[n].alias = answer.resolutions[1].alias
                                     /\ ev[n].output_hash # Null}}

C33_RunPinnedToResolvedModule ==
  [][Len(inflight') < Len(inflight) =>
       /\ last'.op = "POST /run"
       /\ last'.status \in {200, 400}
       /\ StartedWith(last', events) = {last'.moduleHash}
       /\ events'[Len(events')].type = "execute"
       /\ events'[Len(events')].module_hash = Some(last'.moduleHash)
       /\ last'.moduleHash \in DOMAIN blobs
       /\ Behaves(last'.guest, blobs'[last'.moduleHash].data)]_vars

C33_Witness ==
  /\ last.op = "POST /run"
  /\ last.status = 200
  /\ last.resolutions[1].alias = Some(AliasMain)
  /\ getAlias(aliases, AliasMain) # Null
  /\ Val(getAlias(aliases, AliasMain)).hash # last.moduleHash
  /\ events[Len(events)].module_hash = Some(last.moduleHash)
  /\ events[Len(events) - 1].type = "alias"
  /\ events[Len(events) - 1].output_hash # Some(last.moduleHash)

RunOutlivesAlias ==
  /\ last.op = "POST /run"
  /\ last.status = 200
  /\ last.resolutions[1].alias = Some(AliasMain)
  /\ getAlias(aliases, AliasMain) = Null
  /\ events[Len(events)].module_hash = Some(last.moduleHash)

(* C34: every compile or execute event with success = 1 records an        *)
(* output_size, and it is the size of the blob its output_hash names, for *)
(* every output length, zero included.                                    *)
Produced(e) == e.type \in {"compile", "execute"} /\ e.success = 1

C34_SuccessRecordsOutputSize ==
  \A k \in DOMAIN events :
    Produced(events[k]) =>
      /\ events[k].output_hash # Null
      /\ Val(events[k].output_hash) \in DOMAIN blobs
      /\ events[k].output_size # Null
      /\ Val(events[k].output_size) = blobs[Val(events[k].output_hash)].size

(* What holds instead: the size is recorded exactly when it is not zero.  *)
SizeRecordedUnlessZero ==
  \A k \in DOMAIN events :
    Produced(events[k]) =>
      /\ events[k].output_hash # Null
      /\ Val(events[k].output_hash) \in DOMAIN blobs
      /\ LET size == blobs[Val(events[k].output_hash)].size
         IN  events[k].output_size = IF size = 0 THEN Null ELSE Some(size)

EmptyOutputRecorded ==
  /\ last.op = "POST /run"
  /\ last.status = 200
  /\ last.body = <<>>
  /\ events[Len(events)].type = "execute"
  /\ events[Len(events)].success = 1
  /\ blobs[Val(events[Len(events)].output_hash)].size = 0
  /\ events[Len(events)].output_size = Null

(* C35: for every body the edge accepts for a run, the harness copies the *)
(* whole input to [INPUT_PTR, INPUT_PTR + length), that region ends at or *)
(* below OUTPUT_PTR, so it never overlaps the output region, and the copy *)
(* stays within the NeededPages pages the harness has guaranteed.         *)
CopyThrew(k) ==
  /\ k = Len(Calls)
  /\ xResult.pc = "done"
  /\ ~Val(xResult.result).ok
  /\ Val(xResult.result).message = "offset is out of bounds"

CopyBoundedByMemoryOnly ==
  \A k \in CallsOf("set") :
    /\ Calls[k].arg = INPUT_PTR
    /\ Calls[k].pages >= NeededPages
    /\ CopyThrew(k) <=> INPUT_PTR + Len(xInput) > Calls[k].pages * PageSize
    /\ Len(xInput) <= OUTPUT_PTR - INPUT_PTR => ~CopyThrew(k)

InputOverlapsOutput ==
  /\ xResult # NoCall
  /\ xResult.pc = "done"
  /\ Val(xResult.result).ok
  /\ xResult.copied
  /\ Accepts(xInput)
  /\ INPUT_PTR + Len(xInput) > OUTPUT_PTR

CopyOutOfBounds ==
  /\ Accepts(xInput)
  /\ Len(xInput) = NeededPages * PageSize + 1
  /\ xGuest.pages <= NeededPages
  /\ \E k \in CallsOf("set") : CopyThrew(k)
====
